---- MODULE Spec2Model ----
(***************************************************************************)
(* A model of the downstream adjuster (stacks/lambda_functions/adjuster/   *)
(* index.py): the Bedrock retry ladder, the decision normalizer, the bbox  *)
(* geometry, artifact generation, routing persistence and lambda_handler,  *)
(* and of create_endpoint of scripts/deploy_endpoint.py.                   *)
(*                                                                         *)
(* Python strings are sequences of one-character strings.  Python floats   *)
(* are records [k, n]: k is "fin", "nan", "inf" or "-inf" and n counts     *)
(* units of 1/One (One = 10^Decimals * SubSteps), so that values finer     *)
(* than the 6-decimal rounding step are representable.                     *)
(***************************************************************************)
EXTENDS Integers, Sequences, FiniteSets, TLC

VARIABLES
    run,         \* invocation id -> the locals of one lambda_handler call
    s3_objects,  \* <<bucket, key>> -> what put_object stored there
    table,       \* routing_id -> item: the DynamoDB routing table
    call,        \* one call of a pure helper: [fn, arg, ret, returned]
    deploy       \* one run of scripts/deploy_endpoint.py create, and the endpoint

vars == <<run, s3_objects, table, call, deploy>>

(***************************************************************************)
(* Python str                                                              *)
(***************************************************************************)
Whitespace == {" ", "\n", "\t"}

UpperLetters == <<"A","B","C","D","E","F","G","H","I","J","K","L","M",
                  "N","O","P","Q","R","S","T","U","V","W","X","Y","Z">>
LowerLetters == <<"a","b","c","d","e","f","g","h","i","j","k","l","m",
                  "n","o","p","q","r","s","t","u","v","w","x","y","z">>
Digits == <<"0","1","2","3","4","5","6","7","8","9">>

Range(s) == {s[k] : k \in DOMAIN s}

\* str.lower() on one character
LowerChar(c) ==
    IF \E k \in DOMAIN UpperLetters : UpperLetters[k] = c
    THEN LowerLetters[CHOOSE k \in DOMAIN UpperLetters : UpperLetters[k] = c]
    ELSE c

\* str.lower()
Lower(s) == [k \in DOMAIN s |-> LowerChar(s[k])]

RECURSIVE LStrip(_)
LStrip(s) ==
    IF s # <<>> /\ Head(s) \in Whitespace THEN LStrip(Tail(s)) ELSE s

RECURSIVE RStrip(_)
RStrip(s) ==
    IF s # <<>> /\ s[Len(s)] \in Whitespace
    THEN RStrip(SubSeq(s, 1, Len(s) - 1))
    ELSE s

\* str.strip()
Strip(s) == RStrip(LStrip(s))

\* str.startswith(prefix)
StartsWith(s, prefix) ==
    /\ Len(s) >= Len(prefix)
    /\ SubSeq(s, 1, Len(prefix)) = prefix

RECURSIVE DecimalDigits(_)
\* str(n) for an int n >= 0
DecimalDigits(n) ==
    IF n < 10 THEN <<Digits[n + 1]>>
    ELSE DecimalDigits(n \div 10) \o <<Digits[(n % 10) + 1]>>

RECURSIVE ZeroPad(_, _)
\* the zero padding of a format spec such as {idx:03d}
ZeroPad(s, width) == IF Len(s) >= width THEN s ELSE ZeroPad(<<"0">> \o s, width)

\* min and max of two ints
IntMin(a, b) == IF b < a THEN b ELSE a
IntMax(a, b) == IF b > a THEN b ELSE a

(***************************************************************************)
(* Python float                                                            *)
(***************************************************************************)
Decimals == 6
SubSteps == 10
Micro == 10 ^ Decimals
One == Micro * SubSteps
Tenth == One \div 10

Fin(n) == [k |-> "fin", n |-> n]
NaN == [k |-> "nan", n |-> 0]
PosInf == [k |-> "inf", n |-> 0]
NegInf == [k |-> "-inf", n |-> 0]

\* a < b on floats: every comparison with nan is false
FloatLt(a, b) ==
    CASE a.k = "nan" \/ b.k = "nan" -> FALSE
      [] a.k = "-inf" -> b.k # "-inf"
      [] a.k = "inf" -> FALSE
      [] b.k = "-inf" -> FALSE
      [] b.k = "inf" -> TRUE
      [] OTHER -> a.n < b.n

FloatLe(a, b) ==
    CASE a.k = "nan" \/ b.k = "nan" -> FALSE
      [] OTHER -> a = b \/ FloatLt(a, b)

\* the builtin min(a, b): the first argument unless the second is smaller
PyMin(a, b) == IF FloatLt(b, a) THEN b ELSE a

\* the builtin max(a, b): the first argument unless the second is larger
PyMax(a, b) == IF FloatLt(a, b) THEN b ELSE a

\* round(x, 6) of a finite float, to the nearest multiple of 10^-6.  The
\* coordinates used below never lie exactly half way between two multiples.
Round6(x) == Fin(((2 * x.n + SubSteps) \div (2 * SubSteps)) * SubSteps)

(***************************************************************************)
(* Values decoded by json.loads (and the None of a missing dict key)       *)
(*   t = "missing" | "null" | "bool" | "int" | "bigint" | "float" | "nan"  *)
(*       | "inf" | "-inf" | "str" | "list" | "dict"                        *)
(*   n: the int, the bool as 0/1, or the float in units of 1/One           *)
(*   s: the characters of a str                                            *)
(***************************************************************************)
JVal(t, n, s) == [t |-> t, n |-> n, s |-> s]
Missing == JVal("missing", 0, <<>>)
JNull == JVal("null", 0, <<>>)
JTrue == JVal("bool", 1, <<>>)
JFalse == JVal("bool", 0, <<>>)
JInt(n) == JVal("int", n, <<>>)
\* an integer literal beyond the range of a double, such as 10**400
JBigInt == JVal("bigint", 0, <<>>)
JFloat(n) == JVal("float", n, <<>>)
JNaN == JVal("nan", 0, <<>>)
JInf == JVal("inf", 0, <<>>)
JNegInf == JVal("-inf", 0, <<>>)
JStr(s) == JVal("str", 0, s)
JList == JVal("list", 0, <<>>)
JDict == JVal("dict", 0, <<>>)

Returned(f) == [exc |-> "", f |-> f]
Raised(e) == [exc |-> e, f |-> NaN]

DigitValue(c) == (CHOOSE k \in DOMAIN Digits : Digits[k] = c) - 1

IsDigits(s) == s # <<>> /\ \A k \in DOMAIN s : \E d \in DOMAIN Digits : Digits[d] = s[k]

RECURSIVE DigitsToInt(_)
DigitsToInt(s) ==
    IF s = <<>> THEN 0
    ELSE 10 * DigitsToInt(SubSeq(s, 1, Len(s) - 1)) + DigitValue(s[Len(s)])

RECURSIVE FractionUnits(_, _)
\* the value of the digits after the decimal point, in units of 1/One
FractionUnits(s, weight) ==
    IF s = <<>> THEN 0
    ELSE DigitValue(Head(s)) * (weight \div 10) + FractionUnits(Tail(s), weight \div 10)

\* float(str) for an unsigned decimal: "ddd", "ddd.ddd", "ddd." or ".ddd"
ParseUnsigned(s) ==
    LET points == {p \in DOMAIN s : s[p] = "."}
        point == IF points = {} THEN Len(s) + 1 ELSE CHOOSE p \in points : TRUE
        whole == SubSeq(s, 1, point - 1)
        fraction == SubSeq(s, point + 1, Len(s))
    IN  IF /\ Cardinality(points) <= 1
           /\ whole \o fraction # <<>>
           /\ IsDigits(whole \o fraction)
        THEN Returned(Fin(DigitsToInt(whole) * One + FractionUnits(fraction, One)))
        ELSE Raised("ValueError")

Negate(r) ==
    IF r.exc # "" THEN r
    ELSE CASE r.f.k = "fin" -> Returned(Fin(0 - r.f.n))
           [] r.f.k = "inf" -> Returned(NegInf)
           [] r.f.k = "-inf" -> Returned(PosInf)
           [] OTHER -> r

\* the value of a stripped, lower-cased string without its sign
Magnitude(body) ==
    CASE body = <<"n","a","n">> -> Returned(NaN)
      [] body = <<"i","n","f">> -> Returned(PosInf)
      [] OTHER -> ParseUnsigned(body)

\* the value of a stripped, lower-cased string
SignedValue(t) ==
    IF t # <<>> /\ Head(t) = "-" THEN Negate(Magnitude(Tail(t)))
    ELSE IF t # <<>> /\ Head(t) = "+" THEN Magnitude(Tail(t))
    ELSE Magnitude(t)

\* float(str): surrounding whitespace is ignored, "nan" and "inf" are accepted
\* in any case, a sign may lead; anything else is a ValueError.  (Exponents
\* and underscores, which float() also reads, are not among the inputs.)
ParseFloat(s) == SignedValue(Lower(Strip(s)))

\* float(value)
ToFloat(v) ==
    CASE v.t \in {"missing", "null", "list", "dict"} -> Raised("TypeError")
      [] v.t = "bool" -> Returned(Fin(v.n * One))
      [] v.t = "int" -> Returned(Fin(v.n * One))
      [] v.t = "bigint" -> Raised("OverflowError")
      [] v.t = "float" -> Returned(Fin(v.n))
      [] v.t = "nan" -> Returned(NaN)
      [] v.t = "inf" -> Returned(PosInf)
      [] v.t = "-inf" -> Returned(NegInf)
      [] v.t = "str" -> ParseFloat(v.s)

(***************************************************************************)
(* _normalize_bbox                                                         *)
(***************************************************************************)
required == <<"x_min", "y_min", "x_max", "y_max">>

\* a raw bbox: t is the JSON type of the value, c its entries when a dict
RawBbox(t, x_min, y_min, x_max, y_max) ==
    [t |-> t, c |-> [x_min |-> x_min, y_min |-> y_min, x_max |-> x_max, y_max |-> y_max]]

\* the None that home.get("bbox") gives for a home with no bbox
NullBbox == RawBbox("null", Missing, Missing, Missing, Missing)

Box(x_min, y_min, x_max, y_max) ==
    [present |-> TRUE, x_min |-> x_min, y_min |-> y_min, x_max |-> x_max, y_max |-> y_max]

\* None
NoBox == [present |-> FALSE, x_min |-> NaN, y_min |-> NaN, x_max |-> NaN, y_max |-> NaN]

BboxReturn(b) == [exc |-> "", bbox |-> b]
BboxRaise(e) == [exc |-> e, bbox |-> NoBox]

\* max(0.0, min(1.0, value))
Clamp01(value) == PyMax(Fin(0), PyMin(Fin(One), value))

\* x_max <= x_min or y_max <= y_min
Degenerate(x_min, y_min, x_max, y_max) == FloatLe(x_max, x_min) \/ FloatLe(y_max, y_min)

RECURSIVE FirstFailure(_, _)
\* the loop over `required`: the first key whose float() fails decides
FirstFailure(parsed, k) ==
    IF k > Len(required) THEN ""
    ELSE IF parsed[required[k]].exc # "" THEN parsed[required[k]].exc
    ELSE FirstFailure(parsed, k + 1)

\* the lines after the clamping: None for an empty box, else the rounded box
ClampedBox(x_min, y_min, x_max, y_max) ==
    IF Degenerate(x_min, y_min, x_max, y_max) THEN BboxReturn(NoBox)
    ELSE BboxReturn(Box(Round6(x_min), Round6(y_min), Round6(x_max), Round6(y_max)))

\* the body of _normalize_bbox for a dict, given float() of its four entries
BboxOfParsed(parsed) ==
    IF FirstFailure(parsed, 1) \in {"TypeError", "ValueError"} THEN BboxReturn(NoBox)
    ELSE IF FirstFailure(parsed, 1) # "" THEN BboxRaise(FirstFailure(parsed, 1))
    ELSE ClampedBox(Clamp01(parsed.x_min.f), Clamp01(parsed.y_min.f),
                    Clamp01(parsed.x_max.f), Clamp01(parsed.y_max.f))

_normalize_bbox(raw_bbox) ==
    IF raw_bbox.t # "dict" THEN BboxReturn(NoBox)
    ELSE BboxOfParsed([key \in Range(required) |-> ToFloat(raw_bbox.c[key])])

(***************************************************************************)
(* _bbox_to_pixel_box                                                      *)
(***************************************************************************)
\* int(coordinate * dimension).  0.0 and 1.0 are exact doubles; any other
\* coordinate is the double nearest to a decimal, so a product that is a whole
\* number in exact arithmetic may come out one ulp below it and truncate to the
\* integer below (int(0.29 * 100) = 28): `below` selects that outcome.
IntOfProduct(coordinate, dimension, below) ==
    LET exact == (coordinate.n * dimension) \div One
        whole == (coordinate.n * dimension) % One = 0
    IN  IF below /\ whole /\ exact > 0 /\ coordinate.n \notin {0, One}
        THEN exact - 1
        ELSE exact

\* left = max(0, min(width - 1, left)), likewise top
ClampLow(width, left) == IntMax(0, IntMin(width - 1, left))

\* ClampHigh without the max(left + 1, ...) that widens an empty range
ClampHighNotWidened(left, width, right) == IntMin(width, right)

\* right = max(left + 1, min(width, right)), likewise bottom
ClampHigh(left, width, right) == IntMax(left + 1, IntMin(width, right))

\* fp: which of the four products come out below the whole number
_bbox_to_pixel_box(bbox, width, height, fp) ==
    LET left == ClampLow(width, IntOfProduct(bbox.x_min, width, fp.x_min))
        top == ClampLow(height, IntOfProduct(bbox.y_min, height, fp.y_min))
        right == IntOfProduct(bbox.x_max, width, fp.x_max)
        bottom == IntOfProduct(bbox.y_max, height, fp.y_max)
    IN  [left |-> left,
         top |-> top,
         right |-> ClampHigh(left, width, right),
         bottom |-> ClampHigh(top, height, bottom)]

(***************************************************************************)
(* _normalize_decisions                                                    *)
(***************************************************************************)
AUTO_APPROVED == <<"a","u","t","o","_","a","p","p","r","o","v","e","d">>
NEEDS_HUMAN_REVIEW ==
    <<"n","e","e","d","s","_","h","u","m","a","n","_","r","e","v","i","e","w">>
NO_REASON ==
    <<"N","o"," ","r","e","a","s","o","n"," ","p","r","o","v","i","d","e","d",
      " ","b","y"," ","m","o","d","e","l">>

\* dict.get(key, default): v is the value under the key, Missing when absent
Get(v, default) == IF v.t = "missing" THEN default ELSE v

\* str(value), for the kinds of value the inputs below put in string fields
PyStr(v) ==
    CASE v.t = "str" -> v.s
      [] v.t = "null" -> <<"N","o","n","e">>
      [] v.t = "bool" -> IF v.n = 1 THEN <<"T","r","u","e">> ELSE <<"F","a","l","s","e">>
      [] v.t = "int" -> DecimalDigits(v.n)

\* one element of `homes`: t is its JSON type, the other fields its entries
\* when it is a dict (Missing for an absent key)
Home(t, house_id, decision, inclusion, confidence, reason, bbox) ==
    [t |-> t, house_id |-> house_id, decision |-> decision,
     has_5ft_inclusion_zone |-> inclusion, confidence |-> confidence,
     reason |-> reason, bbox |-> bbox]

\* the "summary" a model may return: none, or counts of its own
RawSummary(t, total, auto, review) ==
    [t |-> t, total_homes |-> total, auto_approved_count |-> auto,
     needs_human_review_count |-> review]

NoRawSummary == RawSummary("missing", 0, 0, 0)

\* the parsed model output: t is its JSON type; homes.t is "missing" when the
\* dict has no "homes", else the JSON type of that value; homes.items is what
\* iterating it yields (the elements of a list, the characters of a str, the
\* keys of a dict); summary is the model's own "summary" entry, which
\* _normalize_decisions never reads
RawOutput(t, summary, homes_t, items) ==
    [t |-> t, summary |-> summary, homes |-> [t |-> homes_t, items |-> items]]

\* NormalizeDecision without the fallback for a label outside the set
NormalizeDecisionUnchecked(value) == Lower(Strip(PyStr(Get(value, JStr(<<>>)))))

\* NormalizeDecision without .lower()
NormalizeDecisionCaseSensitive(value) ==
    LET decision == Strip(PyStr(Get(value, JStr(<<>>))))
    IN  IF decision \notin {AUTO_APPROVED, NEEDS_HUMAN_REVIEW}
        THEN NEEDS_HUMAN_REVIEW
        ELSE decision

\* decision = str(home.get("decision", "")).strip().lower(), then the
\* membership test that falls back to needs_human_review
NormalizeDecision(value) ==
    LET decision == Lower(Strip(PyStr(Get(value, JStr(<<>>)))))
    IN  IF decision \notin {AUTO_APPROVED, NEEDS_HUMAN_REVIEW}
        THEN NEEDS_HUMAN_REVIEW
        ELSE decision

\* f"house-{idx:03d}"
DefaultHouseId(idx) == <<"h","o","u","s","e","-">> \o ZeroPad(DecimalDigits(idx), 3)

\* house_id = str(home.get("house_id", f"house-{idx:03d}")), idx counted from 0
NormalizeHouseIdFromZero(value, idx) == PyStr(Get(value, JStr(DefaultHouseId(idx - 1))))

\* house_id = str(home.get("house_id", f"house-{idx:03d}"))
NormalizeHouseId(value, idx) == PyStr(Get(value, JStr(DefaultHouseId(idx))))

\* inclusion = home.get("has_5ft_inclusion_zone", None)
NormalizeInclusion(value) == Get(value, JNull)

\* except (TypeError, ValueError): confidence = 0.0
ConfidenceOrZero(r) == IF r.exc \in {"TypeError", "ValueError"} THEN Returned(Fin(0)) ELSE r

\* float(home.get("confidence", 0)), 0.0 on TypeError or ValueError
NormalizeConfidence(value) == ConfidenceOrZero(ToFloat(Get(value, JInt(0))))

\* the dict appended for a home, given its bbox and confidence; exc is the
\* exception that one of the two raised, if any (the bbox comes first)
NormalizedHome(home, idx, bbox, confidence) ==
    IF bbox.exc # "" THEN [exc |-> bbox.exc, home |-> <<>>]
    ELSE IF confidence.exc # "" THEN [exc |-> confidence.exc, home |-> <<>>]
    ELSE [exc |-> "",
          home |-> [house_id |-> NormalizeHouseId(home.house_id, idx),
                    decision |-> NormalizeDecision(home.decision),
                    has_5ft_inclusion_zone |->
                        NormalizeInclusion(home.has_5ft_inclusion_zone),
                    confidence |-> confidence.f,
                    reason |-> PyStr(Get(home.reason, JStr(NO_REASON))),
                    bbox |-> bbox.bbox]]

\* the body of the loop, for one home: home.get on anything but a dict is an
\* AttributeError
NormalizeHome(home, idx) ==
    IF home.t # "dict" THEN [exc |-> "AttributeError", home |-> <<>>]
    ELSE NormalizedHome(home, idx, _normalize_bbox(home.bbox),
                        NormalizeConfidence(home.confidence))

\* for idx, home in enumerate(homes, start=1): ... normalized.append(...),
\* given the outcome of the body for each home: the first exception leaves
\* the loop
NormalizeLoop(passes) ==
    IF \E k \in DOMAIN passes : passes[k].exc # ""
    THEN [exc |-> passes[CHOOSE k \in DOMAIN passes :
                            /\ passes[k].exc # ""
                            /\ \A j \in 1..(k - 1) : passes[j].exc = ""].exc,
          homes |-> <<>>]
    ELSE [exc |-> "", homes |-> [k \in DOMAIN passes |-> passes[k].home]]

CountDecision(normalized, decision) ==
    Cardinality({k \in DOMAIN normalized : normalized[k].decision = decision})

\* the summary built from the normalized list
Summary(normalized) ==
    [total_homes |-> Len(normalized),
     auto_approved_count |-> CountDecision(normalized, AUTO_APPROVED),
     needs_human_review_count |-> CountDecision(normalized, NEEDS_HUMAN_REVIEW)]

NoSummary == [total_homes |-> 0, auto_approved_count |-> 0, needs_human_review_count |-> 0]

\* the return value, given the outcome of the loop
DecisionSet(loop) ==
    IF loop.exc # "" THEN [exc |-> loop.exc, summary |-> NoSummary, homes |-> <<>>]
    ELSE [exc |-> "", summary |-> Summary(loop.homes), homes |-> loop.homes]

\* homes = raw.get("homes", []) if isinstance(raw, dict) else []
HomesOf(raw) ==
    IF raw.t = "dict" /\ raw.homes.t # "missing" THEN raw.homes
    ELSE [t |-> "list", items |-> <<>>]

\* iterating anything but a list, a str or a dict is a TypeError
_normalize_decisions(raw) ==
    IF HomesOf(raw).t \notin {"list", "str", "dict"}
    THEN [exc |-> "TypeError", summary |-> NoSummary, homes |-> <<>>]
    ELSE DecisionSet(NormalizeLoop([k \in DOMAIN HomesOf(raw).items |->
                                       NormalizeHome(HomesOf(raw).items[k], k)]))

(***************************************************************************)
(* The Bedrock response and its text                                       *)
(*                                                                         *)
(* A text is a sequence of tokens: whitespace characters, the code fence,   *)
(* words such as "json", the name of a complete JSON document (a key of    *)
(* JsonDocuments) and "{..." for a document cut off by the token budget.   *)
(***************************************************************************)
\* the three backquotes that open or close a Markdown code block
FENCE == "<fence>"

RECURSIVE RemoveFenceJson(_)
\* text.replace(FENCE + "json", "")
RemoveFenceJson(text) ==
    IF Len(text) < 2 THEN text
    ELSE IF text[1] = FENCE /\ text[2] = "json"
         THEN RemoveFenceJson(SubSeq(text, 3, Len(text)))
         ELSE <<Head(text)>> \o RemoveFenceJson(Tail(text))

\* text.replace(FENCE, "")
RemoveFence(text) == SelectSeq(text, LAMBDA token : token # FENCE)

\* cleaned = model_text.replace(FENCE + "json", "").replace(FENCE, "").strip()
CleanText(model_text) == Strip(RemoveFence(RemoveFenceJson(model_text)))

RECURSIVE JoinLines(_)
\* "\n".join(text_chunks)
JoinLines(text_chunks) ==
    IF text_chunks = <<>> THEN <<>>
    ELSE IF Len(text_chunks) = 1 THEN text_chunks[1]
    ELSE text_chunks[1] \o <<"\n">> \o JoinLines(Tail(text_chunks))

RECURSIVE TextChunks(_)
\* [item.get("text", "") for item in content if item.get("type") == "text"]
TextChunks(content) ==
    IF content = <<>> THEN <<>>
    ELSE IF Head(content).type = "text"
         THEN <<Head(content).text>> \o TextChunks(Tail(content))
         ELSE TextChunks(Tail(content))

\* "\n".join(text_chunks)
JoinedText(body) == JoinLines(TextChunks(body.content))

\* model_text = "\n".join(text_chunks).strip()
ModelText(body) == Strip(JoinedText(body))

MAX_TOKENS == <<"m","a","x","_","t","o","k","e","n","s">>
END_TURN == <<"e","n","d","_","t","u","r","n">>
UNKNOWN == <<"u","n","k","n","o","w","n">>

\* last_stop_reason = str(body.get("stop_reason", "unknown"))
StopReason(body) == PyStr(Get(body.stop_reason, JStr(UNKNOWN)))

IdHome(id, decision, bbox) == Home("dict", id, decision, Missing, Missing, Missing, bbox)

GoodBbox == RawBbox("dict", JFloat(Tenth), JFloat(Tenth), JFloat(5 * Tenth), JFloat(5 * Tenth))
EdgeBbox == RawBbox("dict", JFloat(5 * Tenth), JInt(0), JInt(2), JFloat(9 * Tenth))

\* the complete JSON documents a response may carry, by name
JsonDocuments ==
    [no_homes |-> RawOutput("dict", RawSummary("dict", 0, 0, 0), "list", <<>>),
     two_homes |-> RawOutput("dict", RawSummary("dict", 2, 2, 0), "list",
                      <<IdHome(JStr(<<"a">>), JStr(AUTO_APPROVED), GoodBbox),
                        IdHome(Missing, JStr(<<"a","p","p","r","o","v","e","d">>), NullBbox)>>),
     same_id |-> RawOutput("dict", NoRawSummary, "list",
                      <<IdHome(JStr(DefaultHouseId(2)), JStr(AUTO_APPROVED), GoodBbox),
                        IdHome(Missing, JStr(NEEDS_HUMAN_REVIEW), EdgeBbox)>>),
     null_homes |-> RawOutput("dict", NoRawSummary, "null", <<>>),
     one_home |-> RawOutput("dict", NoRawSummary, "list",
                      <<IdHome(JStr(<<"a">>), JStr(NEEDS_HUMAN_REVIEW), NullBbox)>>),
     shared_id |-> RawOutput("dict", NoRawSummary, "list",
                      <<IdHome(JStr(<<"a">>), JStr(AUTO_APPROVED), GoodBbox),
                        IdHome(JStr(<<"a">>), JStr(NEEDS_HUMAN_REVIEW), NullBbox)>>),
     alike_ids |-> RawOutput("dict", NoRawSummary, "list",
                      <<IdHome(JStr(<<"a","/","b">>), JStr(AUTO_APPROVED), GoodBbox),
                        IdHome(JStr(<<"a","_","b">>), JStr(NEEDS_HUMAN_REVIEW), EdgeBbox)>>),
     a_list |-> RawOutput("list", NoRawSummary, "missing", <<>>)]

DocumentNames == DOMAIN JsonDocuments

ParsedJson(value) == [exc |-> "", value |-> value]
JSONDecodeError == [exc |-> "JSONDecodeError", value |-> JsonDocuments.no_homes]

\* json.loads(cleaned): cleaned is stripped, so it parses exactly when it is
\* one complete document
JsonLoads(cleaned) ==
    IF Len(cleaned) = 1 /\ cleaned[1] \in DocumentNames
    THEN ParsedJson(JsonDocuments[cleaned[1]])
    ELSE JSONDecodeError

TextItem(text) == [type |-> "text", text |-> text]
ToolUseItem == [type |-> "tool_use", text |-> <<>>]

Body(stop_reason, content) == [stop_reason |-> stop_reason, content |-> content]

\* the texts around one document name: bare, fenced, fenced in two chunks,
\* with a fence in capitals, after a sentence
TextsOf(doc) ==
    {<<TextItem(<<doc>>)>>,
     <<TextItem(<<FENCE, "json", "\n", doc, "\n", FENCE>>)>>,
     <<TextItem(<<FENCE, "json">>), ToolUseItem, TextItem(<<doc, "\n", FENCE, "\n">>)>>,
     <<TextItem(<<FENCE, "JSON", "\n", doc, "\n", FENCE>>)>>,
     <<TextItem(<<"Here", " ", doc>>)>>}

\* contents with no text: no item, no text item, whitespace only
EmptyContents == {<<>>, <<ToolUseItem>>, <<TextItem(<<" ", "\n">>)>>}

\* contents whose text is not empty and does not parse: a cut-off document,
\* bare and fenced, and fences around nothing
BrokenContents ==
    {<<TextItem(<<"{...">>)>>,
     <<TextItem(<<FENCE, "json", "\n", "{...">>)>>,
     <<TextItem(<<FENCE, "json", "\n", FENCE>>)>>}

StopReasons == {JStr(MAX_TOKENS), JStr(END_TURN), Missing, JNull}

Bodies ==
    {Body(stop, content) :
        stop \in StopReasons,
        content \in EmptyContents \cup BrokenContents \cup UNION {TextsOf(doc) : doc \in DocumentNames}}

(***************************************************************************)
(* str(float), as _bbox_to_dynamodb_map and the confidence column use it   *)
(***************************************************************************)
RECURSIVE FractionDigits(_, _)
\* the decimal digits of remainder/One, without trailing zeros, at most
\* `left` of them
FractionDigits(remainder, left) ==
    IF remainder = 0 \/ left = 0 THEN <<>>
    ELSE <<Digits[((remainder * 10) \div One) + 1]>>
         \o FractionDigits((remainder * 10) % One, left - 1)

RECURSIVE SmallExponent(_, _)
\* the e with 1 <= n * 10^e / One < 10, for 0 < n < One
SmallExponent(n, e) == IF n * (10 ^ e) >= One THEN e ELSE SmallExponent(n, e + 1)

\* repr of a float >= 0: fixed notation from 0.0001 up, d.ddde-XX below it
UnsignedFloatStr(n) ==
    LET fixed == n = 0 \/ n >= One \div 10000
        e == IF fixed THEN 0 ELSE SmallExponent(n, 1)
        scaled == n * (10 ^ e)
        fraction == FractionDigits(scaled % One, 17)
        mantissa == DecimalDigits(scaled \div One)
                    \o (IF fraction # <<>> THEN <<".">> \o fraction
                        ELSE IF fixed THEN <<".", "0">> ELSE <<>>)
    IN  IF fixed THEN mantissa
        ELSE mantissa \o <<"e", "-">> \o ZeroPad(DecimalDigits(e), 2)

\* str(x) of a float
FloatStr(x) ==
    CASE x.k = "nan" -> <<"n","a","n">>
      [] x.k = "inf" -> <<"i","n","f">>
      [] x.k = "-inf" -> <<"-","i","n","f">>
      [] OTHER -> (IF x.n < 0 THEN <<"-">> ELSE <<>>)
                  \o UnsignedFloatStr(IF x.n < 0 THEN 0 - x.n ELSE x.n)

\* None, or the four coordinates as strings
_bbox_to_dynamodb_map(bbox) ==
    LET text == [key \in Range(required) |->
                     IF bbox.present THEN FloatStr(bbox[key]) ELSE <<>>]
    IN  [present |-> bbox.present,
         x_min |-> text.x_min, y_min |-> text.y_min,
         x_max |-> text.x_max, y_max |-> text.y_max]

(***************************************************************************)
(* _sanitize_key_component                                                 *)
(***************************************************************************)
MaxComponentLen == 120

\* [A-Za-z0-9._-]
SafeChars == Range(UpperLetters) \cup Range(LowerLetters) \cup Range(Digits) \cup {".", "_", "-"}

\* re.sub(r"[^A-Za-z0-9._-]", "_", value)
ReplaceUnsafe(value) == [k \in DOMAIN value |-> IF value[k] \in SafeChars THEN value[k] ELSE "_"]

\* cleaned[:120], without the placeholder
SanitizedOrEmpty(value) ==
    SubSeq(ReplaceUnsafe(value), 1, IntMin(Len(value), MaxComponentLen))

\* cleaned[:120] or "home"
_sanitize_key_component(value) ==
    LET cleaned == ReplaceUnsafe(value)
        cut == SubSeq(cleaned, 1, IntMin(Len(cleaned), MaxComponentLen))
    IN  IF cut = <<>> THEN <<"h","o","m","e">> ELSE cut

(***************************************************************************)
(* The trigger event                                                       *)
(***************************************************************************)
\* the escapes of the keys below: unquote turns %XX into the character
Escapes == (<<"2","F">> :> "/") @@ (<<"2","0">> :> " ")

RECURSIVE Unquote(_)
Unquote(s) ==
    IF s = <<>> THEN <<>>
    ELSE IF Head(s) = "%" /\ Len(s) >= 3 /\ <<s[2], s[3]>> \in DOMAIN Escapes
         THEN <<Escapes[<<s[2], s[3]>>]>> \o Unquote(SubSeq(s, 4, Len(s)))
         ELSE <<Head(s)>> \o Unquote(Tail(s))

\* urllib.parse.unquote_plus: "+" is a space, then the escapes
unquote_plus(s) == Unquote([k \in DOMAIN s |-> IF s[k] = "+" THEN " " ELSE s[k]])

\* an event: direct says that it has both "bucket" and "key"; Records is its
\* "Records" list ([] when it has none)
Event(direct, bucket, key, Records) ==
    [direct |-> direct, bucket |-> bucket, key |-> key, Records |-> Records]

S3Record(eventSource, bucket, key) == [eventSource |-> eventSource, bucket |-> bucket, key |-> key]

_extract_bucket_key(event) ==
    IF event.direct THEN [exc |-> "", bucket |-> event.bucket, key |-> event.key]
    ELSE IF event.Records # <<>> /\ event.Records[1].eventSource = "aws:s3"
         THEN [exc |-> "", bucket |-> event.Records[1].bucket,
               key |-> unquote_plus(event.Records[1].key)]
         ELSE [exc |-> "ValueError", bucket |-> <<>>, key |-> <<>>]

COMPARED == <<"c","o","m","p","a","r","e","d","/">>

\* key.startswith("compared/") with the test made on the lower-cased key
AcceptedIgnoringCase(key) == StartsWith(Lower(key), COMPARED)

\* key.startswith("compared/")
Accepted(key) == StartsWith(key, COMPARED)

(***************************************************************************)
(* Inputs of the helper calls                                              *)
(***************************************************************************)
MaxHomes == 2
MaxDim == 3
MaxIdLen == 2

\* x coordinates a model may return: absent, unparsable, parsable strings,
\* bools, non-finite and oversized numbers, and numbers inside and outside
\* [0,1], two of them closer together than the rounding step
XValues ==
    {Missing, JNull, JStr(<<"a","b","c">>), JStr(<<"0",".","5">>), JTrue, JNaN,
     JInf, JBigInt, JInt(0), JInt(2), JFloat(0 - 3 * Tenth), JFloat(4 * Tenth),
     JFloat(5 * Tenth), JFloat(Tenth + 1), JFloat(Tenth + 4)}

YValues ==
    {Missing, JStr(<<"n","a","n">>), JBigInt, JInt(0), JInt(1),
     JFloat(5 * Tenth), JFloat(9 * Tenth)}

RawBboxes ==
    {RawBbox("null", Missing, Missing, Missing, Missing),
     RawBbox("list", Missing, Missing, Missing, Missing),
     RawBbox("str", Missing, Missing, Missing, Missing)}
    \cup {RawBbox("dict", x_min, y_min, x_max, y_max) :
            x_min \in XValues, y_min \in YValues, x_max \in XValues, y_max \in YValues}

\* coordinates of a normalized bbox: multiples of 10^-6 in [0,1] (rounding can
\* make the two ends of a box equal, so every combination is an input)
NormalizedCoords == {0, SubSteps, 29 * (One \div 100), 5 * Tenth, One - SubSteps, One}

NormalizedBoxes ==
    {Box(Fin(x_min), Fin(y_min), Fin(x_max), Fin(y_max)) :
        x_min \in NormalizedCoords, y_min \in {0, 5 * Tenth, One - SubSteps},
        x_max \in NormalizedCoords, y_max \in {SubSteps, 5 * Tenth, One}}

Dims == 1..MaxDim

\* which products of _bbox_to_pixel_box come out below a whole number
Roundings == [{"x_min", "y_min", "x_max", "y_max"} -> BOOLEAN]

PixelBoxArgs ==
    {[bbox |-> b, width |-> w, height |-> h, fp |-> fp] :
        b \in NormalizedBoxes, w \in Dims, h \in Dims, fp \in Roundings}

\* the characters of the short ids: safe ones of every kind, and a blank, a
\* slash, a hash, a line feed and a letter outside ASCII
IdChars == {"a", "Z", "7", ".", "_", "-", " ", "/", "#", "\n", "é"}

\* the string of n characters c
Repeat(c, n) == [k \in 1..n |-> c]

\* the ids given to _sanitize_key_component: every string of up to MaxIdLen
\* id characters, and strings around the length at which the result is cut
ComponentValues ==
    UNION {[1..n -> IdChars] : n \in 0..MaxIdLen}
    \cup {Repeat(c, n) \o tail :
            c \in {"a", "/"},
            n \in {MaxComponentLen - 1, MaxComponentLen},
            tail \in {<<>>, <<"b">>, <<"/", "c">>}}

\* {} : a home with no key at all
EmptyHome == Home("dict", Missing, Missing, Missing, Missing, Missing, NullBbox)

DecisionValues ==
    {JStr(AUTO_APPROVED), JStr(NEEDS_HUMAN_REVIEW),
     JStr(<<" ","A","u","t","o","_","A","p","p","r","o","v","e","d"," ">>),
     JStr(<<"a","p","p","r","o","v","e","d">>), JStr(<<>>), JNull, JTrue}

HouseIdValues ==
    {JStr(<<"a">>), JStr(DefaultHouseId(1)), JStr(DefaultHouseId(2)), JNull, JInt(7)}

InclusionValues ==
    {JNull, JTrue, JFalse, JStr(<<"y","e","s">>), JFloat(5 * Tenth), JInt(1), JList}

ConfidenceValues ==
    {JStr(<<"0",".","9">>), JFloat(9 * Tenth), JInt(150), JStr(<<"h","i","g","h">>),
     JNull, JList, JBigInt}

ReasonValues == {JStr(<<"o","k">>), JInt(5), JNull}

HomeBboxes ==
    {RawBbox("dict", JFloat(Tenth), JFloat(Tenth), JFloat(5 * Tenth), JFloat(5 * Tenth)),
     RawBbox("dict", JFloat(5 * Tenth), JFloat(5 * Tenth), JFloat(4 * Tenth), JFloat(9 * Tenth)),
     RawBbox("dict", JBigInt, JInt(0), JInt(1), JInt(1)),
     RawBbox("list", Missing, Missing, Missing, Missing)}

\* the homes a model may return: elements that are no dict, the empty dict, and
\* dicts that set one key or an id and a decision
SampleHomes ==
    {Home(t, Missing, Missing, Missing, Missing, Missing, NullBbox) :
        t \in {"dict", "int", "null", "str"}}
    \cup {Home("dict", id, d, Missing, Missing, Missing, NullBbox) :
            id \in HouseIdValues \cup {Missing}, d \in DecisionValues}
    \cup {Home("dict", Missing, Missing, v, Missing, Missing, NullBbox) : v \in InclusionValues}
    \cup {Home("dict", Missing, Missing, Missing, v, Missing, NullBbox) : v \in ConfidenceValues}
    \cup {Home("dict", Missing, Missing, Missing, Missing, v, NullBbox) : v \in ReasonValues}
    \cup {Home("dict", Missing, JStr(AUTO_APPROVED), Missing, Missing, Missing, b) : b \in HomeBboxes}

\* the homes of the longer lists: ids that repeat or equal a fallback id,
\* labels in their exact and inexact forms, an element that is no dict and a
\* home whose bbox overflows
ListHomes ==
    {Home("dict", id, d, Missing, Missing, Missing, NullBbox) :
        id \in {JStr(<<"a">>), JStr(DefaultHouseId(2)), Missing},
        d \in {JStr(AUTO_APPROVED), JStr(NEEDS_HUMAN_REVIEW),
               JStr(<<" ","A","u","t","o","_","A","p","p","r","o","v","e","d"," ">>),
               JStr(<<"a","p","p","r","o","v","e","d">>)}}
    \cup {Home("int", Missing, Missing, Missing, Missing, Missing, NullBbox),
          Home("dict", Missing, JStr(AUTO_APPROVED), Missing, Missing, Missing,
               RawBbox("dict", JBigInt, JInt(0), JInt(1), JInt(1)))}

\* every sample home on its own, and the lists of up to MaxHomes list homes
HomeLists == [1..1 -> SampleHomes] \cup UNION {[1..n -> ListHomes] : n \in 0..MaxHomes}

\* the characters of a str, or the keys of a dict, met when `homes` is one
StrItem == Home("str", Missing, Missing, Missing, Missing, Missing, NullBbox)

RawSummaries == {NoRawSummary, RawSummary("dict", 9, 9, 0)}

RawOutputs ==
    {RawOutput(t, NoRawSummary, "missing", <<>>) : t \in {"dict", "list", "str", "int", "null"}}
    \cup {RawOutput("list", NoRawSummary, "list", <<EmptyHome>>)}
    \cup {RawOutput("dict", NoRawSummary, t, <<>>) : t \in {"null", "int", "bool", "str", "dict"}}
    \cup {RawOutput("dict", NoRawSummary, t, <<StrItem>>) : t \in {"str", "dict"}}
    \cup {RawOutput("dict", sm, "list", items) : sm \in RawSummaries, items \in HomeLists}

(***************************************************************************)
(* Calls of the helpers on their own                                       *)
(***************************************************************************)
NoCall == [fn |-> "", arg |-> <<>>, ret |-> <<>>, returned |-> FALSE]

Calling(fn, arg) == [fn |-> fn, arg |-> arg, ret |-> <<>>, returned |-> FALSE]

Idle == run = <<>> /\ s3_objects = <<>> /\ table = <<>>

\* the deploy script is not run
NoDeploy ==
    [pc |-> "", status |-> "", in_try |-> FALSE, endpoint |-> "absent",
     creates |-> <<>>, polls |-> 0, transient |-> FALSE]

InitHelpers ==
    /\ Idle
    /\ deploy = NoDeploy
    /\ \/ \E b \in RawBboxes : call = Calling("_normalize_bbox", b)
       \/ \E a \in PixelBoxArgs : call = Calling("_bbox_to_pixel_box", a)
       \/ \E r \in RawOutputs : call = Calling("_normalize_decisions", r)
       \/ \E v \in ComponentValues : call = Calling("_sanitize_key_component", v)

Return(value) ==
    /\ ~call.returned
    /\ call' = [call EXCEPT !.ret = value, !.returned = TRUE]
    /\ UNCHANGED <<run, s3_objects, table, deploy>>

Call_normalize_bbox ==
    /\ call.fn = "_normalize_bbox"
    /\ Return(_normalize_bbox(call.arg))

Call_bbox_to_pixel_box ==
    /\ call.fn = "_bbox_to_pixel_box"
    /\ Return(_bbox_to_pixel_box(call.arg.bbox, call.arg.width, call.arg.height, call.arg.fp))

Call_normalize_decisions ==
    /\ call.fn = "_normalize_decisions"
    /\ Return(_normalize_decisions(call.arg))

Call_sanitize_key_component ==
    /\ call.fn = "_sanitize_key_component"
    /\ Return(_sanitize_key_component(call.arg))

NextHelpers ==
    \/ Call_normalize_bbox
    \/ Call_bbox_to_pixel_box
    \/ Call_normalize_decisions
    \/ Call_sanitize_key_component

SpecHelpers == InitHelpers /\ [][NextHelpers]_vars

(***************************************************************************)
(* lambda_handler                                                          *)
(*                                                                         *)
(* run[i] holds the locals of invocation i and, in gets, puts and written, *)
(* the S3 reads, the S3 writes and the table writes it has issued.  pc is  *)
(* the statement it is at; Done, Filtered and Failed are final.  items     *)
(* holds the items that reached the table, failures the statements at      *)
(* which a call failed, absorbed or not, in the order they failed, heard    *)
(* the cleaned text of the response that the model gave last.              *)
(***************************************************************************)
\* a ladder with a fourth tier
LongTiers == <<2500, 5000, 8000, 8000>>

\* for max_tokens in [2500, 5000, 8000]
Tiers == <<2500, 5000, 8000>>

\* the break of the except branch, never taken
NeverBreaks(last_stop_reason) == FALSE

\* if last_stop_reason != "max_tokens": break
Breaks(last_stop_reason) == last_stop_reason # MAX_TOKENS

NoImage == [decodable |-> FALSE, width |-> 0, height |-> 0]
NoNormalized == [summary |-> NoSummary, homes |-> <<>>]
NoResult == [kind |-> "none", skipped |-> FALSE, reason |-> "", summary |-> NoSummary,
             annotated_image_s3_uri |-> JNull]

NewRun(event, pil) ==
    [pc |-> "extract", event |-> event, PIL_AVAILABLE |-> pil,
     bucket |-> <<>>, key |-> <<>>, prompt_text |-> "base",
     image_bytes |-> NoImage,
     tier |-> 1, calls |-> 0, budgets |-> <<>>,
     last_stop_reason |-> UNKNOWN, last_cleaned |-> <<>>,
     all_truncated |-> TRUE, malformed_at |-> 0, blank_at |-> 0,
     raw |-> JsonDocuments.no_homes, normalized |-> NoNormalized,
     idx |-> 0, crop_uris |-> <<>>, annotated_image_s3_uri |-> JNull,
     timestamp |-> "",
     gets |-> <<>>, puts |-> <<>>, written |-> <<>>,
     buffer |-> <<>>, items |-> <<>>, failures |-> <<>>, heard |-> <<>>,
     result |-> NoResult, error |-> ""]

Final == {"Done", "Filtered", "Failed"}

\* the locals of invocation i become r
Step(i, r) == run' = [run EXCEPT ![i] = r]

\* an exception leaves lambda_handler: logged and raised again
Raise(r, exc) ==
    [r EXCEPT !.pc = "Failed", !.error = exc, !.failures = Append(@, r.pc)]

\* an exception is caught where it happens: logged, and the run goes on
Absorb(r) == [r EXCEPT !.failures = Append(@, r.pc)]

S3Uri(bucket, key) == <<"s", "3", ":", "/", "/">> \o bucket \o <<"/">> \o key

PROMPT_S3_KEY ==
    <<"a","d","j","u","s","t","e","r","_","p","r","o","m","p","t",".","t","x","t">>

\* the prefix test on what _extract_bucket_key returned or raised
Located(r, e) ==
    IF e.exc # "" THEN Raise(r, e.exc)
    ELSE IF ~Accepted(e.key)
         THEN [r EXCEPT !.bucket = e.bucket, !.key = e.key, !.pc = "Filtered",
                        !.result = [NoResult EXCEPT !.kind = "skipped",
                                                    !.skipped = TRUE,
                                                    !.reason = "unsupported-prefix"]]
         ELSE [r EXCEPT !.bucket = e.bucket, !.key = e.key, !.pc = "load_prompt"]

\* bucket, key = _extract_bucket_key(event), then the prefix test
Extract(i) ==
    /\ run[i].pc = "extract"
    /\ Step(i, Located(run[i], _extract_bucket_key(run[i].event)))
    /\ UNCHANGED <<s3_objects, table, call, deploy>>

PromptOutcomes == {"text", "blank", "ClientError", "UnicodeDecodeError"}

\* custom_prompt = _load_s3_text(bucket, PROMPT_S3_KEY): a ClientError becomes a
\* RuntimeError, which the handler swallows; any other exception leaves
LoadPrompt(i, outcome) ==
    LET r == run[i]
        read == [r EXCEPT !.gets = Append(@, <<r.bucket, PROMPT_S3_KEY>>)]
    IN  /\ r.pc = "load_prompt"
        /\ CASE outcome = "text" ->
                  Step(i, [read EXCEPT !.pc = "load_image", !.prompt_text = "base+custom"])
             [] outcome = "blank" -> Step(i, [read EXCEPT !.pc = "load_image"])
             [] outcome = "ClientError" ->
                  Step(i, [Absorb(read) EXCEPT !.pc = "load_image"])
             [] OTHER -> Step(i, Raise(read, outcome))
        /\ UNCHANGED <<s3_objects, table, call, deploy>>

\* what get_object returns for the image: bytes that decode to an image of
\* some size, bytes that do not decode
Images ==
    {[decodable |-> TRUE, width |-> w, height |-> h] : w \in {1, MaxDim}, h \in {MaxDim}}
    \cup {NoImage}

\* image_bytes = _load_s3_binary(bucket, key), a failure being swallowed as the
\* failure to read the custom prompt is
LoadImageOrNone(i, found, image) ==
    LET r == run[i]
        read == [r EXCEPT !.gets = Append(@, <<r.bucket, r.key>>)]
    IN  /\ r.pc = "load_image"
        /\ IF found
           THEN Step(i, [read EXCEPT !.pc = "invoke_bedrock", !.image_bytes = image])
           ELSE Step(i, [Absorb(read) EXCEPT !.pc = "invoke_bedrock"])
        /\ UNCHANGED <<s3_objects, table, call, deploy>>

\* image_bytes = _load_s3_binary(bucket, key)
LoadImage(i, found, image) ==
    LET r == run[i]
        read == [r EXCEPT !.gets = Append(@, <<r.bucket, r.key>>)]
    IN  /\ r.pc = "load_image"
        /\ IF found
           THEN Step(i, [read EXCEPT !.pc = "invoke_bedrock", !.image_bytes = image])
           ELSE Step(i, Raise(read, "RuntimeError"))
        /\ UNCHANGED <<s3_objects, table, call, deploy>>

\* the end of the for loop body: the next tier, or the RuntimeError after the
\* last one
Continue(r) ==
    IF r.tier = Len(Tiers) THEN Raise(r, "RuntimeError") ELSE [r EXCEPT !.tier = @ + 1]

\* invoke_model has answered: one more call, made with the budget of the tier
Called(r, last_stop_reason, truncated) ==
    [r EXCEPT !.calls = @ + 1,
              !.budgets = Append(@, Tiers[r.tier]),
              !.last_stop_reason = last_stop_reason,
              !.all_truncated = @ /\ truncated]

\* except json.JSONDecodeError: the text is kept; the loop is left unless the
\* response was cut at max_tokens
Malformed(called, last_stop_reason) ==
    IF Breaks(last_stop_reason)
    THEN Raise([called EXCEPT !.malformed_at =
                                 IF last_stop_reason # MAX_TOKENS THEN called.calls ELSE @],
               "RuntimeError")
    ELSE Continue([called EXCEPT !.malformed_at =
                                    IF last_stop_reason # MAX_TOKENS THEN called.calls ELSE @])

\* try: return json.loads(cleaned), unless the response was cut at max_tokens
LoadedUnlessTruncated(r, last_stop_reason, cleaned, parsed) ==
    IF parsed.exc = "" /\ last_stop_reason # MAX_TOKENS
    THEN [Called(r, last_stop_reason, FALSE) EXCEPT
            !.pc = "normalize", !.raw = parsed.value, !.last_cleaned = cleaned,
            !.tier = 1, !.last_stop_reason = UNKNOWN]
    ELSE Malformed([Called(r, last_stop_reason, last_stop_reason = MAX_TOKENS)
                      EXCEPT !.last_cleaned = cleaned],
                   last_stop_reason)

\* try: return json.loads(cleaned)
Loaded(r, last_stop_reason, cleaned, parsed) ==
    IF parsed.exc = ""
    THEN [Called(r, last_stop_reason, FALSE) EXCEPT
            !.pc = "normalize", !.raw = parsed.value, !.last_cleaned = cleaned,
            !.tier = 1, !.last_stop_reason = UNKNOWN]
    ELSE Malformed([Called(r, last_stop_reason, last_stop_reason = MAX_TOKENS)
                      EXCEPT !.last_cleaned = cleaned],
                   last_stop_reason)

\* the text of the response, with its fence removed, is parsed
Cleaned(r, last_stop_reason, cleaned) ==
    Loaded(r, last_stop_reason, cleaned, JsonLoads(cleaned))

\* a response whose text is only whitespace, and whose stop reason is not
\* max_tokens, is noted
Blank(called, last_stop_reason, joined) ==
    [called EXCEPT !.blank_at =
                      IF @ = 0 /\ joined # <<>> /\ last_stop_reason # MAX_TOKENS
                      THEN called.calls ELSE @]

\* if not model_text: continue, but only when the response was cut at
\* max_tokens
AnsweredOrAborts(r, last_stop_reason, joined, model_text) ==
    IF model_text = <<>>
    THEN IF last_stop_reason = MAX_TOKENS
         THEN Continue(Blank(Called(r, last_stop_reason, joined # <<>>),
                             last_stop_reason, joined))
         ELSE Raise(Called(r, last_stop_reason, FALSE), "RuntimeError")
    ELSE Cleaned(r, last_stop_reason, CleanText(model_text))

\* if not model_text: continue
Answered(r, last_stop_reason, joined, model_text) ==
    IF model_text = <<>>
    THEN Continue(Blank(Called(r, last_stop_reason,
                               last_stop_reason = MAX_TOKENS /\ joined # <<>>),
                        last_stop_reason, joined))
    ELSE Cleaned(r, last_stop_reason, CleanText(model_text))

\* one pass of the loop of _invoke_bedrock, for the response `body`
LadderPass(r, body) == Answered(r, StopReason(body), JoinedText(body), ModelText(body))

\* the response `body` has arrived: its text, cleaned, is what was heard last
Heard(r, body) == [r EXCEPT !.heard = CleanText(ModelText(body))]

\* bedrock.invoke_model answers with `body`
InvokeModel(i, body) ==
    /\ run[i].pc = "invoke_bedrock"
    /\ Step(i, LadderPass(Heard(run[i], body), body))
    /\ UNCHANGED <<s3_objects, table, call, deploy>>

\* bedrock.invoke_model raises, and the loop goes on to the next tier
InvokeModelFailsAndContinues(i) ==
    LET r == run[i]
    IN  /\ r.pc = "invoke_bedrock"
        /\ Step(i, Continue(Absorb([r EXCEPT !.calls = @ + 1,
                                             !.budgets = Append(@, Tiers[r.tier]),
                                             !.all_truncated = FALSE])))
        /\ UNCHANGED <<s3_objects, table, call, deploy>>

\* bedrock.invoke_model raises
InvokeModelFails(i) ==
    LET r == run[i]
    IN  /\ r.pc = "invoke_bedrock"
        /\ Step(i, Raise([r EXCEPT !.calls = @ + 1,
                                   !.budgets = Append(@, Tiers[r.tier]),
                                   !.all_truncated = FALSE], "ClientError"))
        /\ UNCHANGED <<s3_objects, table, call, deploy>>

\* the DecisionSet is kept, or the exception leaves the handler
Normalized(r, n) ==
    IF n.exc # "" THEN Raise(r, n.exc)
    ELSE [r EXCEPT !.pc = "open_image",
                   !.normalized = [summary |-> n.summary, homes |-> n.homes]]

\* normalized = _normalize_decisions(raw_model_output)
Normalize(i) ==
    /\ run[i].pc = "normalize"
    /\ Step(i, Normalized(run[i], _normalize_decisions(run[i].raw)))
    /\ UNCHANGED <<s3_objects, table, call, deploy>>

\* the start of _save_visual_artifacts: without Pillow, or with bytes that do
\* not decode, it returns (None, {})
OpenImage(i) ==
    LET r == run[i]
    IN  /\ r.pc = "open_image"
        /\ IF r.PIL_AVAILABLE /\ r.image_bytes.decodable
           THEN Step(i, [r EXCEPT !.pc = "crop", !.idx = 1])
           ELSE Step(i, [Absorb(r) EXCEPT !.pc = "write", !.idx = 1])
        /\ UNCHANGED <<s3_objects, table, call, deploy>>

CROPS ==
    <<"r","o","u","t","i","n","g","-","a","r","t","i","f","a","c","t","s","/",
      "c","r","o","p","s","/">>
ANNOTATED ==
    <<"r","o","u","t","i","n","g","-","a","r","t","i","f","a","c","t","s","/",
      "a","n","n","o","t","a","t","e","d","/">>
PNG == <<".","p","n","g">>

\* f"routing-artifacts/crops/{image_key}/{safe_house_id}.png"
CropKey(image_key, house_id) ==
    CROPS \o image_key \o <<"/">> \o _sanitize_key_component(house_id) \o PNG

\* f"routing-artifacts/annotated/{image_key}.annotated.png"
AnnotatedKey(image_key) ==
    ANNOTATED \o image_key \o <<".","a","n","n","o","t","a","t","e","d">> \o PNG

\* dict[key] = value
Store(dict, key, value) ==
    [k \in DOMAIN dict \cup {key} |-> IF k = key THEN value ELSE dict[k]]

\* s3.put_object of the crop of `home` under crop_key
PutCrop(i, r, home, crop_key, put_ok, fp) ==
    IF ~put_ok
    THEN /\ Step(i, Raise([r EXCEPT !.puts = Append(@, <<r.bucket, crop_key>>)],
                          "ClientError"))
         /\ UNCHANGED s3_objects
    ELSE /\ Step(i, [r EXCEPT
                       !.puts = Append(@, <<r.bucket, crop_key>>),
                       !.idx = @ + 1,
                       !.crop_uris = Store(@, home.house_id, S3Uri(r.bucket, crop_key))])
         /\ s3_objects' = Store(s3_objects, <<r.bucket, crop_key>>,
                                [kind |-> "crop", of |-> r.key, house_id |-> home.house_id,
                                 box |-> _bbox_to_pixel_box(home.bbox, r.image_bytes.width,
                                                            r.image_bytes.height, fp)])

\* the body of the loop for `home`: if not bbox: continue
CropHome(i, r, home, put_ok, fp) ==
    IF ~home.bbox.present
    THEN /\ Step(i, [r EXCEPT !.idx = @ + 1])
         /\ UNCHANGED s3_objects
    ELSE PutCrop(i, r, home, CropKey(r.key, home.house_id), put_ok, fp)

\* one pass of the loop over normalized["homes"], also taken while the records
\* are written
CropWhileWriting(i, put_ok, fp) ==
    /\ run[i].pc \in {"crop", "put_item"}
    /\ run[i].idx <= Len(run[i].normalized.homes)
    /\ CropHome(i, run[i], run[i].normalized.homes[run[i].idx], put_ok, fp)
    /\ UNCHANGED <<table, call, deploy>>

\* one pass of the loop over normalized["homes"]: a home without bbox is
\* skipped; else its crop is put and its uri kept.  A put_object that raises
\* leaves the handler.
Crop(i, put_ok, fp) ==
    /\ run[i].pc = "crop"
    /\ run[i].idx <= Len(run[i].normalized.homes)
    /\ CropHome(i, run[i], run[i].normalized.homes[run[i].idx], put_ok, fp)
    /\ UNCHANGED <<table, call, deploy>>

\* s3.put_object of the annotated image under annotated_key
PutAnnotated(i, r, annotated_key, put_ok) ==
    IF ~put_ok
    THEN /\ Step(i, Raise([r EXCEPT !.puts = Append(@, <<r.bucket, annotated_key>>)],
                          "ClientError"))
         /\ UNCHANGED s3_objects
    ELSE /\ Step(i, [r EXCEPT
                       !.puts = Append(@, <<r.bucket, annotated_key>>),
                       !.pc = "write", !.idx = 1,
                       !.annotated_image_s3_uri = JStr(S3Uri(r.bucket, annotated_key))])
         /\ s3_objects' = Store(s3_objects, <<r.bucket, annotated_key>>,
                                [kind |-> "annotated", of |-> r.key, house_id |-> <<>>,
                                 box |-> {k \in DOMAIN r.normalized.homes :
                                            r.normalized.homes[k].bbox.present}])

\* after the loop: the annotated image is put when a crop was put
AnnotateIfCropped(i, put_ok) ==
    /\ run[i].pc = "crop"
    /\ run[i].idx > Len(run[i].normalized.homes)
    /\ IF run[i].crop_uris = <<>>
       THEN Step(i, [run[i] EXCEPT !.pc = "write", !.idx = 1]) /\ UNCHANGED s3_objects
       ELSE PutAnnotated(i, run[i], AnnotatedKey(run[i].key), put_ok)
    /\ UNCHANGED <<table, call, deploy>>

\* after the loop: the annotated image is put and its uri returned
Annotate(i, put_ok) ==
    /\ run[i].pc = "crop"
    /\ run[i].idx > Len(run[i].normalized.homes)
    /\ PutAnnotated(i, run[i], AnnotatedKey(run[i].key), put_ok)
    /\ UNCHANGED <<table, call, deploy>>

\* datetime.now(tz=timezone.utc).isoformat()
Timestamps == {"t1", "t2"}

\* f"{image_key}#{home['house_id']}" with the time of the write added
RoutingIdWithTime(r, home) == r.key \o <<"#">> \o home.house_id \o <<"#", r.timestamp>>

\* f"{image_key}#{home['house_id']}"
RoutingId(r, home) == r.key \o <<"#">> \o home.house_id

\* the Item of one home
Item(r, home) ==
    [routing_id |-> RoutingId(r, home),
     source_image_uri |-> S3Uri(r.bucket, r.key),
     house_id |-> home.house_id,
     decision |-> home.decision,
     has_5ft_inclusion_zone |-> home.has_5ft_inclusion_zone,
     confidence |-> FloatStr(home.confidence),
     reason |-> home.reason,
     bbox |-> _bbox_to_dynamodb_map(home.bbox),
     home_crop_s3_uri |-> IF home.house_id \in DOMAIN r.crop_uris
                          THEN JStr(r.crop_uris[home.house_id])
                          ELSE JNull,
     annotated_image_s3_uri |-> r.annotated_image_s3_uri,
     created_at |-> r.timestamp]

\* the first lines of _write_routing_results
StartWrite(i, timestamp) ==
    LET r == run[i]
    IN  /\ r.pc = "write"
        /\ Step(i, [r EXCEPT !.pc = "put_item", !.timestamp = timestamp])
        /\ UNCHANGED <<s3_objects, table, call, deploy>>

\* The batch writer of boto3 keeps the items put in a buffer and sends them
\* with one BatchWriteItem when the buffer holds flush_amount items, and what
\* is left when the with block is left.  flush_amount is 25; it is scaled down
\* here with the length of the lists, so that a list does not fit one request.
FlushAmount == 1

\* BatchWriteItem rejects a request that holds two items with the same key
DuplicateKeys(batch) ==
    \E j, k \in DOMAIN batch : j < k /\ batch[j].routing_id = batch[k].routing_id

\* the table after the items of a request without duplicate keys are put:
\* an item replaces the item with its key
StoreAll(tbl, batch) ==
    [id \in DOMAIN tbl \cup {batch[k].routing_id : k \in DOMAIN batch} |->
        IF \E k \in DOMAIN batch : batch[k].routing_id = id
        THEN batch[CHOOSE k \in DOMAIN batch : batch[k].routing_id = id]
        ELSE tbl[id]]

\* one BatchWriteItem with the items of `batch`, whose failure is logged and
\* the items dropped
FlushOrDrop(i, r, sent, batch, put_ok) ==
    IF put_ok /\ ~DuplicateKeys(batch)
    THEN /\ Step(i, [sent EXCEPT
                       !.buffer = <<>>,
                       !.written = @ \o [k \in DOMAIN batch |-> batch[k].routing_id],
                       !.items = @ \o batch])
         /\ table' = StoreAll(table, batch)
    ELSE /\ Step(i, [Absorb(sent) EXCEPT !.buffer = <<>>])
         /\ UNCHANGED table

\* one BatchWriteItem with the items of `batch`: they are all stored and the
\* locals become `sent`, or the request fails and ClientError leaves the handler
Flush(i, r, sent, batch, put_ok) ==
    IF put_ok /\ ~DuplicateKeys(batch)
    THEN /\ Step(i, [sent EXCEPT
                       !.buffer = <<>>,
                       !.written = @ \o [k \in DOMAIN batch |-> batch[k].routing_id],
                       !.items = @ \o batch])
         /\ table' = StoreAll(table, batch)
    ELSE /\ Step(i, Raise(r, "ClientError"))
         /\ UNCHANGED table

\* the writer with one more item in its buffer: sent when the buffer is full
Buffered(i, r, buffer, put_ok) ==
    IF Len(buffer) < FlushAmount
    THEN /\ Step(i, [r EXCEPT !.idx = @ + 1, !.buffer = buffer])
         /\ UNCHANGED table
    ELSE Flush(i, r, [r EXCEPT !.idx = @ + 1], buffer, put_ok)

\* writer.put_item(Item=item), of the auto-approved homes only
WriteItemIfApproved(i, r, item, put_ok) ==
    IF item.decision = AUTO_APPROVED
    THEN Buffered(i, r, Append(r.buffer, item), put_ok)
    ELSE Step(i, [r EXCEPT !.idx = @ + 1]) /\ UNCHANGED table

\* writer.put_item(Item=item)
WriteItem(i, r, item, put_ok) == Buffered(i, r, Append(r.buffer, item), put_ok)

\* the batch writer takes the item of one home, and stores its buffer or
\* fails when the buffer is full
PutItem(i, put_ok) ==
    /\ run[i].pc = "put_item"
    /\ run[i].idx <= Len(run[i].normalized.homes)
    /\ WriteItem(i, run[i], Item(run[i], run[i].normalized.homes[run[i].idx]), put_ok)
    /\ UNCHANGED <<s3_objects, call, deploy>>

\* return {"bucket": ..., **normalized["summary"]}
ReturnSummary(r) ==
    [r EXCEPT !.pc = "Done",
              !.result = [NoResult EXCEPT
                            !.kind = "summary",
                            !.summary = r.normalized.summary,
                            !.annotated_image_s3_uri = r.annotated_image_s3_uri]]

\* the with block is left: what is in the buffer is sent, and the summary is
\* returned
Finish(i, put_ok) ==
    /\ run[i].pc = "put_item"
    /\ run[i].idx > Len(run[i].normalized.homes)
    /\ IF run[i].buffer = <<>>
       THEN Step(i, ReturnSummary(run[i])) /\ UNCHANGED table
       ELSE Flush(i, run[i], ReturnSummary(run[i]), run[i].buffer, put_ok)
    /\ UNCHANGED <<s3_objects, call, deploy>>

(***************************************************************************)
(* One invocation                                                          *)
(***************************************************************************)
BUCKET == <<"b","1">>

DirectKeys ==
    {COMPARED \o <<"a">>,
     <<"u","p","l","o","a","d","s","/","f","o","o",".","p","n","g">>,
     <<"C","o","m","p","a","r","e","d","/","a">>,
     <<"c","o","m","p","a","r","e","d">>,
     <<"c","o","m","p","a","r","e","d","%","2","F","a">>}

RecordKeys ==
    {<<"c","o","m","p","a","r","e","d","%","2","F","a">>,
     <<"u","p","l","o","a","d","s","/","a","+","b">>}

Events ==
    {Event(TRUE, BUCKET, key, <<>>) : key \in DirectKeys}
    \cup {Event(FALSE, <<>>, <<>>, <<S3Record("aws:s3", BUCKET, key)>>) : key \in RecordKeys}
    \cup {Event(FALSE, <<>>, <<>>, <<>>),
          Event(FALSE, <<>>, <<>>, <<S3Record("aws:sqs", BUCKET, COMPARED \o <<"a">>)>>)}

Init ==
    /\ \E event \in Events, pil \in BOOLEAN : run = <<NewRun(event, pil)>>
    /\ s3_objects = <<>>
    /\ table = <<>>
    /\ call = NoCall
    /\ deploy = NoDeploy

Next ==
    \/ \E i \in DOMAIN run : Extract(i)
    \/ \E i \in DOMAIN run, outcome \in PromptOutcomes : LoadPrompt(i, outcome)
    \/ \E i \in DOMAIN run, found \in BOOLEAN, image \in Images : LoadImage(i, found, image)
    \/ \E i \in DOMAIN run, body \in Bodies : InvokeModel(i, body)
    \/ \E i \in DOMAIN run : InvokeModelFails(i)
    \/ \E i \in DOMAIN run : Normalize(i)
    \/ \E i \in DOMAIN run : OpenImage(i)
    \/ \E i \in DOMAIN run, put_ok \in BOOLEAN, fp \in Roundings : Crop(i, put_ok, fp)
    \/ \E i \in DOMAIN run, put_ok \in BOOLEAN : Annotate(i, put_ok)
    \/ \E i \in DOMAIN run, timestamp \in Timestamps : StartWrite(i, timestamp)
    \/ \E i \in DOMAIN run, put_ok \in BOOLEAN : PutItem(i, put_ok)
    \/ \E i \in DOMAIN run, put_ok \in BOOLEAN : Finish(i, put_ok)

Spec == Init /\ [][Next]_vars

(***************************************************************************)
(* Two invocations at once                                                 *)
(*                                                                         *)
(* The Lambda service runs invocations side by side, each in an execution  *)
(* environment of its own: they share the bucket and the table, nothing    *)
(* else.  Both read no custom prompt and a 3 x 3 image, the model ends its *)
(* turn with a complete document, and no S3 or DynamoDB call fails.        *)
(***************************************************************************)
OTHER_BUCKET == <<"b","2">>

\* the event of the second invocation: the event of the first again, the same
\* key in another bucket, another key in the same bucket
SecondEvents ==
    {Event(TRUE, BUCKET, COMPARED \o <<"a">>, <<>>),
     Event(TRUE, OTHER_BUCKET, COMPARED \o <<"a">>, <<>>),
     Event(TRUE, BUCKET, COMPARED \o <<"b">>, <<>>)}

\* the responses: the model ends its turn with one of three documents, whose
\* homes have ids of their own
TwoBodies ==
    {Body(JStr(END_TURN), <<TextItem(<<doc>>)>>) : doc \in {"no_homes", "one_home", "two_homes"}}

TwoImage == [decodable |-> TRUE, width |-> 3, height |-> 3]

\* no product of _bbox_to_pixel_box comes out below a whole number
ExactProducts == [key \in {"x_min", "y_min", "x_max", "y_max"} |-> FALSE]

InitTwo ==
    /\ \E event \in SecondEvents, pil \in BOOLEAN :
          run = <<NewRun(Event(TRUE, BUCKET, COMPARED \o <<"a">>, <<>>), pil),
                  NewRun(event, pil)>>
    /\ s3_objects = <<>>
    /\ table = <<>>
    /\ call = NoCall
    /\ deploy = NoDeploy

NextTwo ==
    \/ \E i \in DOMAIN run : Extract(i)
    \/ \E i \in DOMAIN run : LoadPrompt(i, "blank")
    \/ \E i \in DOMAIN run : LoadImage(i, TRUE, TwoImage)
    \/ \E i \in DOMAIN run, body \in TwoBodies : InvokeModel(i, body)
    \/ \E i \in DOMAIN run : Normalize(i)
    \/ \E i \in DOMAIN run : OpenImage(i)
    \/ \E i \in DOMAIN run : Crop(i, TRUE, ExactProducts)
    \/ \E i \in DOMAIN run : Annotate(i, TRUE)
    \/ \E i \in DOMAIN run, timestamp \in Timestamps : StartWrite(i, timestamp)
    \/ \E i \in DOMAIN run : PutItem(i, TRUE)
    \/ \E i \in DOMAIN run : Finish(i, TRUE)

SpecTwo == InitTwo /\ [][NextTwo]_vars

(***************************************************************************)
(* create_endpoint of scripts/deploy_endpoint.py                           *)
(*                                                                         *)
(* deploy holds the statement the script is at (Returned, Exited after     *)
(* sys.exit and Raised after an exception are final), its local status,    *)
(* whether _wait_for_in_service was called inside the try, and the status  *)
(* of the endpoint at SageMaker ("absent" when there is none).  creates    *)
(* holds the status the endpoint had at each create call, polls counts the *)
(* sleeps, and transient tells that a call raised ClientError although the *)
(* endpoint existed.                                                       *)
(***************************************************************************)
MaxPolls == 2

\* EndpointStatus of an endpoint that exists
EndpointStatuses == {"Creating", "Updating", "InService", "Failed", "Deleting"}

\* sm.describe_endpoint: ClientError when there is no endpoint, or when the
\* call fails for another reason (throttling, credentials); else the status
DescribeResult(endpoint, fails) ==
    IF endpoint = "absent" \/ fails THEN "ClientError" ELSE endpoint

\* the ClientError of a call that was made while the endpoint existed
Transient(d) == [d EXCEPT !.transient = @ \/ d.endpoint # "absent"]

\* what the try block does with the first status read
Described(d, status) ==
    CASE status = "ClientError" -> [Transient(d) EXCEPT !.pc = "stack_outputs"]
      [] status = "InService" -> [d EXCEPT !.pc = "Returned", !.status = status]
      [] status = "Failed" -> [d EXCEPT !.pc = "delete", !.status = status]
      [] OTHER -> [d EXCEPT !.pc = "wait_in_service", !.status = status, !.in_try = TRUE]

\* response = sm.describe_endpoint(...) and the tests on its status
Describe(fails) ==
    /\ deploy.pc = "describe"
    /\ deploy' = Described(deploy, DescribeResult(deploy.endpoint, fails))
    /\ UNCHANGED <<run, s3_objects, table, call>>

\* sm.delete_endpoint(...): the endpoint is Deleting, or ClientError, which
\* the except of create_endpoint swallows
DeleteEndpoint(fails) ==
    /\ deploy.pc = "delete"
    /\ IF fails \/ deploy.endpoint = "absent"
       THEN deploy' = [Transient(deploy) EXCEPT !.pc = "stack_outputs"]
       ELSE deploy' = [deploy EXCEPT !.pc = "wait_deletion", !.endpoint = "Deleting"]
    /\ UNCHANGED <<run, s3_objects, table, call>>

\* one pass of the loop of _wait_for_deletion: any ClientError ends it
Polled(d, status) ==
    IF status = "ClientError"
    THEN [Transient(d) EXCEPT !.pc = "stack_outputs"]
    ELSE [d EXCEPT !.polls = @ + 1]

PollDeletion(fails) ==
    /\ deploy.pc = "wait_deletion"
    /\ deploy.polls < MaxPolls
    /\ deploy' = Polled(deploy, DescribeResult(deploy.endpoint, fails))
    /\ UNCHANGED <<run, s3_objects, table, call>>

\* one pass of the loop of _wait_for_in_service: InService returns, Failed
\* exits, a ClientError leaves the function, and is swallowed when the call
\* was made inside the try of create_endpoint
Waited(d, status) ==
    CASE status = "ClientError" ->
           IF d.in_try THEN [Transient(d) EXCEPT !.pc = "stack_outputs"]
           ELSE [Transient(d) EXCEPT !.pc = "Raised"]
      [] status = "InService" -> [d EXCEPT !.pc = "Returned", !.status = status]
      [] status = "Failed" -> [d EXCEPT !.pc = "Exited", !.status = status]
      [] OTHER -> [d EXCEPT !.polls = @ + 1, !.status = status]

PollInService(fails) ==
    /\ deploy.pc = "wait_in_service"
    /\ deploy.polls < MaxPolls
    /\ deploy' = Waited(deploy, DescribeResult(deploy.endpoint, fails))
    /\ UNCHANGED <<run, s3_objects, table, call>>

\* config_name = outputs.get("EndpointConfigName"): without it, sys.exit(1)
StackOutputs(found) ==
    /\ deploy.pc = "stack_outputs"
    /\ deploy' = [deploy EXCEPT !.pc = IF found THEN "create" ELSE "Exited"]
    /\ UNCHANGED <<run, s3_objects, table, call>>

\* sm.create_endpoint(...): the endpoint is Creating, or ClientError when it
\* exists already or the call fails; then _wait_for_in_service, outside the try
CreateEndpoint(fails) ==
    /\ deploy.pc = "create"
    /\ IF deploy.endpoint = "absent" /\ ~fails
       THEN deploy' = [deploy EXCEPT !.creates = Append(@, deploy.endpoint),
                                     !.pc = "wait_in_service", !.in_try = FALSE,
                                     !.endpoint = "Creating"]
       ELSE deploy' = [deploy EXCEPT !.creates = Append(@, deploy.endpoint),
                                     !.pc = "Raised"]
    /\ UNCHANGED <<run, s3_objects, table, call>>

\* SageMaker goes on with what it is doing: an endpoint that is Creating or
\* Updating becomes InService or Failed, one that is Deleting disappears
EndpointProgress(ok) ==
    /\ deploy.pc \notin {"", "Returned", "Exited", "Raised"}
    /\ deploy.endpoint \in {"Creating", "Updating", "Deleting"}
    /\ deploy' = [deploy EXCEPT !.endpoint =
                      IF deploy.endpoint = "Deleting" THEN "absent"
                      ELSE IF ok THEN "InService" ELSE "Failed"]
    /\ UNCHANGED <<run, s3_objects, table, call>>

InitDeploy ==
    /\ Idle
    /\ call = NoCall
    /\ \E endpoint \in EndpointStatuses \cup {"absent"} :
          deploy = [NoDeploy EXCEPT !.pc = "describe", !.endpoint = endpoint]

NextDeploy ==
    \/ \E fails \in BOOLEAN : Describe(fails)
    \/ \E fails \in BOOLEAN : DeleteEndpoint(fails)
    \/ \E fails \in BOOLEAN : PollDeletion(fails)
    \/ \E fails \in BOOLEAN : PollInService(fails)
    \/ \E found \in BOOLEAN : StackOutputs(found)
    \/ \E fails \in BOOLEAN : CreateEndpoint(fails)
    \/ \E ok \in BOOLEAN : EndpointProgress(ok)

SpecDeploy == InitDeploy /\ [][NextDeploy]_vars

(***************************************************************************)
(* Properties of create_endpoint, checked under SpecDeploy                 *)
(***************************************************************************)
\* C30: create_endpoint issues the create call of SageMaker only when there
\* is no endpoint, at the start or after the deletion of a Failed endpoint
\* was observed; it never issues it while the endpoint exists, InService or
\* in an operation in progress, also when a poll of the status raises
\* ClientError while it waits.
C30_CreateOnlyWhenAbsent ==
    \A k \in DOMAIN deploy.creates : deploy.creates[k] = "absent"

\* the same, of the runs in which no call raised ClientError while the
\* endpoint existed
CreateOnlyWhenAbsentWithoutTransient ==
    ~deploy.transient => \A k \in DOMAIN deploy.creates : deploy.creates[k] = "absent"

\* the script issues the create call at most once
AtMostOneCreate == Len(deploy.creates) <= 1

(***************************************************************************)
(* Properties of lambda_handler                                            *)
(***************************************************************************)
\* every step of a running ladder is one more model call
LadderAdvances ==
    \A i \in DOMAIN run :
        (run[i].pc = "invoke_bedrock" /\ run'[i] # run[i])
            => run'[i].calls = run[i].calls + 1

\* the calls of every ladder so far
LadderBounded ==
    \A i \in DOMAIN run :
        /\ run[i].calls <= 3
        /\ run[i].budgets = SubSeq(<<2500, 5000, 8000>>, 1, run[i].calls)
        /\ run[i].pc = "invoke_bedrock" => run[i].calls < 3
        /\ (run[i].calls > 0 /\ run[i].all_truncated /\ run[i].pc # "invoke_bedrock")
              => /\ run[i].calls = 3
                 /\ run[i].pc = "Failed"
                 /\ run[i].error = "RuntimeError"

\* C1: whatever the model answers, the ladder makes at most 3 calls, the k-th
\* with the k-th of the budgets 2500 < 5000 < 8000, and has ended after the
\* third (each of its steps is a call, so it takes at most 3 steps); when every
\* response stopped at max_tokens with text that is not empty and does not
\* parse, it makes exactly 3 calls and fails.
C1_LadderBoundedAndEnds == []LadderBounded /\ [][LadderAdvances]_vars

\* C1 witness: three responses cut at max_tokens, then the RuntimeError
C1_Witness ==
    \E i \in DOMAIN run :
        /\ run[i].all_truncated
        /\ run[i].budgets = <<2500, 5000, 8000>>
        /\ run[i].pc = "Failed"
        /\ run[i].error = "RuntimeError"

\* after the response counted in `at` the ladder has made no call and failed
FailedAt(r, at) == at > 0 => (r.calls = at /\ r.pc = "Failed" /\ r.error = "RuntimeError")

\* C2 as stated: once a response has text that is not empty and does not
\* parse, and a stop reason other than max_tokens, the ladder makes no further
\* call and fails; on the first call it has then made exactly 1 call.
C2_NoCallAfterMalformed ==
    \A i \in DOMAIN run :
        FailedAt(run[i], run[i].malformed_at) /\ FailedAt(run[i], run[i].blank_at)

\* C2 amended: once a response has text that is not empty after its
\* surrounding whitespace is stripped and does not parse, and a stop reason
\* other than max_tokens, the ladder makes no further call and fails; on the
\* first call it has then made exactly 1 call.  (A text of whitespace only is
\* treated as an empty one: the next tier is tried.)
C2_NoCallAfterMalformedText ==
    \A i \in DOMAIN run : FailedAt(run[i], run[i].malformed_at)

\* C2 witness: the first response ended normally with text that does not
\* parse, and the ladder failed after this one call
C2_Witness ==
    \E i \in DOMAIN run :
        /\ run[i].malformed_at = 1
        /\ run[i].calls = 1
        /\ run[i].last_stop_reason = END_TURN
        /\ run[i].pc = "Failed"

\* C10: when the key of the event does not start with "compared/", the run
\* ends in Filtered and returns skipped = true with reason
\* "unsupported-prefix", having made no model call, no S3 get or put and no
\* table write.
C10_OtherPrefixIsFiltered ==
    \A i \in DOMAIN run :
        ( /\ run[i].pc # "extract"
          /\ _extract_bucket_key(run[i].event).exc = ""
          /\ ~StartsWith(_extract_bucket_key(run[i].event).key,
                         <<"c","o","m","p","a","r","e","d","/">>) )
        => /\ run[i].pc = "Filtered"
           /\ run[i].result.skipped
           /\ run[i].result.reason = "unsupported-prefix"
           /\ run[i].error = ""
           /\ run[i].calls = 0
           /\ run[i].gets = <<>>
           /\ run[i].puts = <<>>
           /\ run[i].written = <<>>
           /\ s3_objects = <<>>
           /\ table = <<>>

\* C10 witness: the run for the key "uploads/foo.png" has ended in Filtered
C10_Witness ==
    \E i \in DOMAIN run :
        /\ run[i].event.key = <<"u","p","l","o","a","d","s","/","f","o","o",".","p","n","g">>
        /\ run[i].pc = "Filtered"
        /\ run[i].result.skipped

\* the statement at which the last failure of run r happened
LastFailure(r) == IF r.failures = <<>> THEN "" ELSE r.failures[Len(r.failures)]

\* _invoke_bedrock has returned to lambda_handler
LadderReturned(r) ==
    \/ r.pc \in {"normalize", "open_image", "crop", "write", "put_item", "Done"}
    \/ r.pc = "Failed" /\ LastFailure(r) \in {"normalize", "crop", "put_item"}

\* what the ladder returned is what the text heard last, not empty, parses
\* to, and it was heard at the tier of the last call; as long as the ladder
\* runs, the text heard last is empty or does not parse
ReturnsFirstParse ==
    \A i \in DOMAIN run :
        LET r == run[i]
        IN  /\ LadderReturned(r)
               => /\ r.calls >= 1
                  /\ r.budgets = SubSeq(Tiers, 1, r.calls)
                  /\ r.heard # <<>>
                  /\ r.last_cleaned = r.heard
                  /\ JsonLoads(r.heard) = ParsedJson(r.raw)
            /\ (r.pc = "invoke_bedrock" /\ r.calls > 0)
               => (r.heard = <<>> \/ JsonLoads(r.heard).exc # "")

\* after the ladder has returned there is no model call, and what it returned
\* stays
NoCallAfterReturn ==
    \A i \in DOMAIN run :
        LadderReturned(run[i])
        => /\ run'[i].calls = run[i].calls
           /\ run'[i].budgets = run[i].budgets
           /\ run'[i].raw = run[i].raw

\* C21: the ladder returns the parsed output of the first tier whose cleaned
\* text is not empty and parses, and no model call is made after that tier.
C21_ReturnsFirstParseAndStops == []ReturnsFirstParse /\ [][NoCallAfterReturn]_vars

\* C21 witness: the first response did not parse, the second does, and its
\* document is returned after two calls
C21_Witness ==
    \E i \in DOMAIN run :
        /\ run[i].pc = "normalize"
        /\ run[i].calls = 2
        /\ run[i].budgets = <<2500, 5000>>
        /\ run[i].heard = <<"two_homes">>
        /\ run[i].raw = JsonDocuments.two_homes

\* the responses without text: no text item, or text of whitespace only
EmptyBodies == {body \in Bodies : ModelText(body) = <<>>}

\* the step of run r to run s is the pass of the ladder for an empty response:
\* one call is made, nothing is parsed or kept as cleaned text, and the ladder
\* is at the next, larger tier, or has failed after the last tier
EmptyResponseAdvances(r, s, body) ==
    /\ s.calls = r.calls + 1
    /\ s.budgets = Append(r.budgets, Tiers[r.tier])
    /\ s.last_stop_reason = StopReason(body)
    /\ s.last_cleaned = r.last_cleaned
    /\ s.malformed_at = r.malformed_at
    /\ s.raw = r.raw
    /\ IF r.tier < Len(Tiers)
       THEN /\ s.pc = "invoke_bedrock"
            /\ s.tier = r.tier + 1
            /\ Tiers[s.tier] > Tiers[r.tier]
       ELSE /\ s.pc = "Failed"
            /\ s.error = "RuntimeError"
            /\ s.calls = Len(Tiers)

\* C22: a response whose text is empty is not parsed and does not end the
\* ladder: whatever its stop reason, the ladder goes on to the next larger
\* tier when there is one, and fails only after the third.
C22_EmptyTextAdvances ==
    [][\A i \in DOMAIN run :
          (run[i].pc = "invoke_bedrock" /\ run'[i].heard = <<>>)
          => \A body \in EmptyBodies :
                run'[i] = LadderPass(Heard(run[i], body), body)
                => EmptyResponseAdvances(run[i], run'[i], body)]_vars

\* C22 witness: the first response ended its turn without text, and the
\* ladder is at the second tier
C22_Witness ==
    \E i \in DOMAIN run :
        /\ run[i].pc = "invoke_bedrock"
        /\ run[i].calls = 1
        /\ run[i].tier = 2
        /\ run[i].last_stop_reason = END_TURN
        /\ run[i].heard = <<>>

\* the ladder of run r has ended with its RuntimeError
LadderFailed(r) ==
    r.pc = "Failed" /\ LastFailure(r) = "invoke_bedrock" /\ r.error = "RuntimeError"

\* C23: when the ladder fails, the stop reason and the cleaned text that go
\* with its error are those of the last model call, both of the same call.
C23_DiagnosticsOfLastCall ==
    \A i \in DOMAIN run :
        LadderFailed(run[i]) => run[i].last_cleaned = run[i].heard

\* the same, of a ladder whose last response had text
DiagnosticsOfLastText ==
    \A i \in DOMAIN run :
        (LadderFailed(run[i]) /\ run[i].heard # <<>>)
        => run[i].last_cleaned = run[i].heard

\* the statements of lambda_handler after the prefix test, in their order
Statements ==
    <<"load_prompt", "load_image", "invoke_bedrock", "normalize", "open_image", "crop",
      "write", "put_item", "Done">>

\* the place of statement pc in that order
Position(pc) == CHOOSE k \in DOMAIN Statements : Statements[k] = pc

\* a step of a run goes forward in the order of the statements, and each
\* effect happens at its statement only: the S3 reads, then the model calls,
\* then the DecisionSet, then the puts, then the records, then the summary
StepsInOrder ==
    \A i \in DOMAIN run :
        LET r == run[i]
            s == run'[i]
        IN  /\ (r.pc \in Range(Statements) /\ s.pc \in Range(Statements))
               => Position(s.pc) >= Position(r.pc)
            /\ s.gets # r.gets => r.pc \in {"load_prompt", "load_image"}
            /\ s.image_bytes # r.image_bytes => r.pc = "load_image"
            /\ s.calls # r.calls => r.pc = "invoke_bedrock"
            /\ s.raw # r.raw => r.pc = "invoke_bedrock"
            /\ s.normalized # r.normalized => r.pc = "normalize"
            /\ s.puts # r.puts => r.pc = "crop"
            /\ (s.written # r.written \/ s.buffer # r.buffer) => r.pc = "put_item"
            /\ (s.pc = "Done" /\ r.pc # "Done") => r.pc = "put_item"

\* what a run has done so far, by the statement it is at
DoneSoFar ==
    \A i \in DOMAIN run :
        LET r == run[i]
        IN  /\ r.calls > 0 => <<r.bucket, r.key>> \in Range(r.gets)
            /\ r.puts # <<>> => (LadderReturned(r) /\ JsonLoads(r.heard) = ParsedJson(r.raw))
            /\ (r.written # <<>> \/ r.buffer # <<>>)
               => (r.pc \in {"put_item", "Done"} \/ (r.pc = "Failed" /\ LastFailure(r) = "put_item"))
            /\ r.pc = "Done"
               => /\ r.buffer = <<>>
                  /\ Len(r.written) = Len(r.normalized.homes)
                  /\ r.result.kind = "summary"

\* C24: in a run that passes the prefix test the steps come one after the
\* other: the image is fetched, then the model is called, then its output is
\* normalized, then the artifacts are put, then the records are written.  No
\* blob is put before the ladder has returned a parsed document, no record is
\* written before the last put of the run, and the run is Done only after
\* the batch write has completed.
C24_StepsAreSequential == []DoneSoFar /\ [][StepsInOrder]_vars

\* C24 witness: a run is Done after two S3 reads, the model calls, a crop and
\* the annotated image put, and two records written
C24_Witness ==
    \E i \in DOMAIN run :
        /\ run[i].pc = "Done"
        /\ Len(run[i].gets) = 2
        /\ run[i].calls = 2
        /\ Len(run[i].puts) = 2
        /\ Len(run[i].written) = 2

\* Pillow is there and the bytes of the image decode
Decodes(r) == r.PIL_AVAILABLE /\ r.image_bytes.decodable

\* _save_visual_artifacts has returned
ArtifactsReturned(r) ==
    \/ r.pc \in {"write", "put_item", "Done"}
    \/ r.pc = "Failed" /\ LastFailure(r) = "put_item"

\* the homes of the DecisionSet of r that have a bbox, in their order
HomesWithBbox(r) == SelectSeq(r.normalized.homes, LAMBDA home : home.bbox.present)

\* the puts of a complete artifact generation: the crop of every home with a
\* bbox, in the order of the homes, then the annotated image
ArtifactPuts(r) ==
    [k \in DOMAIN HomesWithBbox(r) |->
        <<r.bucket, CropKey(r.key, HomesWithBbox(r)[k].house_id)>>]
    \o << <<r.bucket, AnnotatedKey(r.key)>> >>

\* C27: when the image decodes, _save_visual_artifacts makes one crop put for
\* each home with a bbox and one put of the annotated image, after the crop
\* puts, also when no home has a bbox; when the image does not decode it
\* makes no put.  While it runs its puts are the first of these.
C27_OnePutPerBboxAndOneOverview ==
    \A i \in DOMAIN run :
        LET r == run[i]
        IN  /\ (ArtifactsReturned(r) /\ Decodes(r)) => r.puts = ArtifactPuts(r)
            /\ ~Decodes(r) => r.puts = <<>>
            /\ (r.pc = "crop" \/ (r.pc = "Failed" /\ LastFailure(r) = "crop"))
               => /\ Len(r.puts) <= Len(ArtifactPuts(r))
                  /\ r.puts = SubSeq(ArtifactPuts(r), 1, Len(r.puts))

\* C27 witness: of two homes one has a bbox: its crop was put, then the
\* annotated image
C27_Witness ==
    \E i \in DOMAIN run :
        /\ run[i].pc = "Done"
        /\ Len(run[i].normalized.homes) = 2
        /\ Len(HomesWithBbox(run[i])) = 1
        /\ Len(run[i].puts) = 2
        /\ run[i].puts[2] = <<run[i].bucket, AnnotatedKey(run[i].key)>>

\* no home has a bbox, and the annotated image was put
C27_WitnessNoBbox ==
    \E i \in DOMAIN run :
        /\ run[i].pc = "Done"
        /\ Len(run[i].normalized.homes) = 1
        /\ HomesWithBbox(run[i]) = <<>>
        /\ run[i].puts = << <<run[i].bucket, AnnotatedKey(run[i].key)>> >>

\* homes j and k of run r are two homes with a bbox and different ids
TwoCroppedHomes(r, j, k) ==
    /\ j # k
    /\ r.normalized.homes[j].bbox.present
    /\ r.normalized.homes[k].bbox.present
    /\ r.normalized.homes[j].house_id # r.normalized.homes[k].house_id

\* C29: in one run, two homes with different ids that both have a bbox have
\* their crops under different keys: neither crop put replaces the crop of
\* the other home, and their records refer to different crop uris.
C29_CropKeysDistinct ==
    \A i \in DOMAIN run :
        run[i].pc = "Done"
        => \A j, k \in DOMAIN run[i].normalized.homes :
              (Decodes(run[i]) /\ TwoCroppedHomes(run[i], j, k))
              => /\ run[i].items[j].home_crop_s3_uri # run[i].items[k].home_crop_s3_uri
                 /\ \E a, b \in DOMAIN run[i].puts :
                       /\ a # b
                       /\ run[i].puts[a] # run[i].puts[b]
                       /\ s3_objects[run[i].puts[a]].house_id = run[i].normalized.homes[j].house_id
                       /\ s3_objects[run[i].puts[b]].house_id = run[i].normalized.homes[k].house_id

\* C14: a run that is Done has written exactly one record for each home of
\* its DecisionSet, in their order, the record of a home under the
\* routing_id of that home, and the table holds a record under each of them;
\* a run with no homes is Done without a record written.
C14_OneWritePerHome ==
    \A i \in DOMAIN run :
        run[i].pc = "Done"
        => LET r == run[i]
               homes == r.normalized.homes
           IN  /\ Len(r.written) = Len(homes)
               /\ Len(r.items) = Len(homes)
               /\ r.buffer = <<>>
               /\ \A k \in DOMAIN homes :
                     /\ r.written[k] = r.key \o <<"#">> \o homes[k].house_id
                     /\ r.items[k].routing_id = r.written[k]
                     /\ r.items[k].house_id = homes[k].house_id
                     /\ r.items[k].decision = homes[k].decision
                     /\ r.written[k] \in DOMAIN table
               /\ (homes = <<>> => r.written = <<>> /\ table = <<>>)

\* C14 witness: a run is Done with two homes, one of them for review, and
\* two records of their own
C14_Witness ==
    \E i \in DOMAIN run :
        /\ run[i].pc = "Done"
        /\ Len(run[i].normalized.homes) = 2
        /\ run[i].normalized.homes[2].decision = NEEDS_HUMAN_REVIEW
        /\ Len(run[i].written) = 2
        /\ Cardinality(DOMAIN table) = 2

\* a run is Done without homes and without records
C14_WitnessEmpty ==
    \E i \in DOMAIN run :
        /\ run[i].pc = "Done"
        /\ run[i].normalized.homes = <<>>
        /\ run[i].written = <<>>

\* the statements of _save_visual_artifacts
ArtifactSteps == {"open_image", "crop"}

\* run r has put no blob, and the table holds nothing
NothingPersisted(r) ==
    /\ r.puts = <<>>
    /\ r.written = <<>>
    /\ r.items = <<>>
    /\ s3_objects = <<>>
    /\ table = <<>>

\* C15: a failure during artifact generation (no Pillow, bytes that do not
\* decode, a failing crop, draw or put of a crop or of the overview) is
\* absorbed: the run does not end in Failed because of it, and the batch
\* write runs with an empty artifact bundle.
C15_ArtifactFailureAbsorbed ==
    \A i \in DOMAIN run :
        /\ run[i].pc = "Failed" => LastFailure(run[i]) \notin ArtifactSteps
        /\ ( /\ LastFailure(run[i]) \in ArtifactSteps
             /\ run[i].pc \in {"write", "put_item", "Done"} )
           => /\ run[i].crop_uris = <<>>
              /\ run[i].annotated_image_s3_uri = JNull

\* the absorbed part of artifact generation: without Pillow, or with bytes
\* that do not decode, the run goes on to the batch write with an empty bundle
DecodeFailureAbsorbed ==
    \A i \in DOMAIN run :
        \A k \in DOMAIN run[i].failures :
            run[i].failures[k] = "open_image"
            => /\ run[i].crop_uris = <<>>
               /\ run[i].annotated_image_s3_uri = JNull
               /\ run[i].puts = <<>>
               /\ (run[i].pc = "Failed" => LastFailure(run[i]) = "put_item")

\* C16: a run that ends in Failed has left no blob in the bucket: none of the
\* crops and no annotated image that it put exists, in particular when the
\* batch write failed.
C16_FailedLeavesNoBlob ==
    \A i \in DOMAIN run :
        run[i].pc = "Failed"
        => \A k \in DOMAIN run[i].puts : run[i].puts[k] \notin DOMAIN s3_objects

\* C17: when the fetch of the image fails, or the ladder fails (its tiers are
\* exhausted, a text that was not cut at max_tokens does not parse, or
\* invoke_model raises), the run ends in Failed with the error raised and no
\* summary, and has put no blob and written no record; when it is the fetch
\* of the image that failed, the model has not been called.
C17_FetchOrLadderFailureIsFatal ==
    \A i \in DOMAIN run :
        LET r == run[i]
        IN  /\ \A k \in DOMAIN r.failures :
                  r.failures[k] \in {"load_image", "invoke_bedrock"}
                  => /\ r.pc = "Failed"
                     /\ k = Len(r.failures)
                     /\ r.error \in {"RuntimeError", "ClientError"}
                     /\ r.result = NoResult
                     /\ NothingPersisted(r)
                     /\ (r.failures[k] = "load_image" => r.calls = 0)
            /\ r.malformed_at > 0
               => /\ r.pc = "Failed"
                  /\ LastFailure(r) = "invoke_bedrock"

\* C17 witness: the third response does not parse either, the ladder is
\* exhausted, and the run has failed without a put or a record
C17_Witness ==
    \E i \in DOMAIN run :
        /\ run[i].pc = "Failed"
        /\ LastFailure(run[i]) = "invoke_bedrock"
        /\ run[i].calls = Len(Tiers)
        /\ run[i].error = "RuntimeError"
        /\ Len(run[i].gets) = 2
        /\ NothingPersisted(run[i])

\* the fetch of the image has failed, before any model call
C17_WitnessFetch ==
    \E i \in DOMAIN run :
        /\ run[i].pc = "Failed"
        /\ LastFailure(run[i]) = "load_image"
        /\ run[i].calls = 0
        /\ run[i].result = NoResult

RECURSIVE TableOf(_)
\* the table that one invocation leaves when it alone writes `items`
TableOf(items) ==
    IF items = <<>> THEN <<>>
    ELSE Store(TableOf(SubSeq(items, 1, Len(items) - 1)),
               items[Len(items)].routing_id, items[Len(items)])

\* when a BatchWriteItem of run r has failed, the run is Failed with the
\* ClientError and no summary, after fewer records than it has homes, and the
\* table holds the records that it wrote before, as they were written
BatchFailureIsFatal ==
    \A i \in DOMAIN run :
        LET r == run[i]
        IN  \A k \in DOMAIN r.failures :
                r.failures[k] = "put_item"
                => /\ r.pc = "Failed"
                   /\ k = Len(r.failures)
                   /\ r.error = "ClientError"
                   /\ r.result = NoResult
                   /\ Len(r.written) < Len(r.normalized.homes)
                   /\ r.written = [j \in DOMAIN r.items |-> r.items[j].routing_id]
                   /\ \A j \in DOMAIN r.items :
                         r.items[j].house_id = r.normalized.homes[j].house_id
                   /\ table = TableOf(r.items)

\* a run that is Failed takes no step: it changes neither its locals nor the
\* bucket nor the table
FailedIsFinal ==
    \A i \in DOMAIN run :
        run[i].pc = "Failed"
        => /\ run'[i] = run[i]
           /\ table' = table
           /\ s3_objects' = s3_objects

\* C18: when the batch write fails, also after records of the batch have been
\* written, the run ends in Failed with the error raised and no summary; the
\* records written before stay in the table as they were written, none is
\* removed or written again, and the failed write is not tried again.
C18_BatchFailureFatalAndNotRetried == []BatchFailureIsFatal /\ [][FailedIsFinal]_vars

\* C18 witness: the record of the first home is in the table, and the write
\* of the second has failed
C18_Witness ==
    \E i \in DOMAIN run :
        /\ run[i].pc = "Failed"
        /\ LastFailure(run[i]) = "put_item"
        /\ Len(run[i].normalized.homes) = 2
        /\ Len(run[i].written) = 1
        /\ DOMAIN table = {run[i].written[1]}

\* C19: no failure other than one of artifact generation is absorbed: a
\* failing fetch of the image or of the custom prompt, a failing model call
\* and a failing batch write each end the run in Failed.
C19_OnlyArtifactFailureAbsorbed ==
    \A i \in DOMAIN run :
        \A k \in DOMAIN run[i].failures :
            run[i].failures[k] \notin ArtifactSteps
            => /\ run[i].pc = "Failed"
               /\ k = Len(run[i].failures)

\* C19 as the code has it: a failing fetch of the custom prompt is absorbed
\* when it is a ClientError; every failure at another statement outside
\* artifact generation ends the run in Failed.
C19_OnlyArtifactAndPromptFailureAbsorbed ==
    \A i \in DOMAIN run :
        /\ \A k \in DOMAIN run[i].failures :
              run[i].failures[k] \notin ArtifactSteps \cup {"load_prompt"}
              => /\ run[i].pc = "Failed"
                 /\ k = Len(run[i].failures)
        /\ ( /\ LastFailure(run[i]) = "load_prompt"
             /\ run[i].pc = "Failed" )
           => run[i].error = "UnicodeDecodeError"

\* C19 witness: the prompt could not be fetched, the run went on, and then
\* invoke_model raised: the run has failed
C19_Witness ==
    \E i \in DOMAIN run :
        /\ run[i].failures = <<"load_prompt", "invoke_bedrock">>
        /\ run[i].pc = "Failed"
        /\ run[i].error = "ClientError"

\* C20: in a run that is Done, every home whose bbox is None is in the
\* DecisionSet and counted in the summary, no crop was put for it, and its
\* record was written with no bbox and no crop reference.
C20_NoBboxNoCropButRecord ==
    \A i \in DOMAIN run :
        run[i].pc = "Done"
        => LET r == run[i]
               homes == r.normalized.homes
           IN  /\ r.normalized.summary.total_homes = Len(homes)
               /\ Len(r.items) = Len(homes)
               /\ \A k \in DOMAIN homes :
                     ~homes[k].bbox.present
                     => /\ r.items[k].house_id = homes[k].house_id
                        /\ ~r.items[k].bbox.present
                        /\ r.items[k].home_crop_s3_uri = JNull

\* the same, of the homes whose house_id no other home of the DecisionSet has
NoBboxNoCropWhenIdIsOwn ==
    \A i \in DOMAIN run :
        run[i].pc = "Done"
        => LET r == run[i]
               homes == r.normalized.homes
           IN  \A k \in DOMAIN homes :
                   ( /\ ~homes[k].bbox.present
                     /\ \A j \in DOMAIN homes : j # k => homes[j].house_id # homes[k].house_id )
                   => /\ ~r.items[k].bbox.present
                      /\ r.items[k].home_crop_s3_uri = JNull
                      /\ <<r.bucket, CropKey(r.key, homes[k].house_id)>> \notin Range(r.puts)

(***************************************************************************)
(* Properties of two invocations, checked under SpecTwo                    *)
(***************************************************************************)
\* invocations i and j are two, and both have returned their summary
BothDone(i, j) == i # j /\ run[i].pc = "Done" /\ run[j].pc = "Done"

\* the routing_ids that invocation i has written
WrittenIds(i) == Range(run[i].written)

\* C11: when the records of the same DecisionSet are written twice for the
\* same key, both writes produce the same set of routing_ids, and the table
\* then holds the records of exactly these routing_ids, one each: the second
\* write adds no record.
C11_SecondWriteOverwrites ==
    \A i, j \in DOMAIN run :
        ( /\ BothDone(i, j)
          /\ run[i].key = run[j].key
          /\ run[i].normalized = run[j].normalized )
        => /\ WrittenIds(i) = WrittenIds(j)
           /\ DOMAIN table = WrittenIds(i)
           /\ \A id \in WrittenIds(i) : table[id].routing_id = id

\* C11 witness: two homes were written twice under the same key, at
\* different times, and the table holds two records
C11_Witness ==
    /\ BothDone(1, 2)
    /\ run[1].key = run[2].key
    /\ run[1].normalized = run[2].normalized
    /\ run[1].timestamp # run[2].timestamp
    /\ Len(run[1].written) = 2
    /\ Cardinality(DOMAIN table) = 2

\* C12: two invocations for different images (the bucket or the key of their
\* triggers differ) never write a record with the same routing_id, whatever
\* the interleaving and whatever ids the model returns.
C12_DifferentImagesNeverContend ==
    \A i, j \in DOMAIN run :
        ( /\ i # j
          /\ run[i].pc # "extract"
          /\ run[j].pc # "extract"
          /\ <<run[i].bucket, run[i].key>> # <<run[j].bucket, run[j].key>> )
        => WrittenIds(i) \cap WrittenIds(j) = {}

\* the fields of a record that hold the decision
DecisionFields(item) ==
    [routing_id |-> item.routing_id, house_id |-> item.house_id,
     decision |-> item.decision,
     has_5ft_inclusion_zone |-> item.has_5ft_inclusion_zone,
     confidence |-> item.confidence, reason |-> item.reason, bbox |-> item.bbox]

\* the table holds the records that invocation i alone would have left, up
\* to the time of the write and the artifact references
StoredAsBy(i) ==
    /\ DOMAIN table = DOMAIN TableOf(run[i].items)
    /\ \A id \in DOMAIN table :
          DecisionFields(table[id]) = DecisionFields(TableOf(run[i].items)[id])

\* C13: after two invocations for the same trigger are both Done, whatever
\* the interleaving of their steps and writes, the records stored for the
\* trigger are the records that one invocation would have written: the same
\* identities with the same decision fields, and no record left over from
\* the other invocation.
C13_SameTriggerConverges ==
    \A i, j \in DOMAIN run :
        ( /\ BothDone(i, j)
          /\ run[i].bucket = run[j].bucket
          /\ run[i].key = run[j].key )
        => (StoredAsBy(i) \/ StoredAsBy(j))

\* the same, of two invocations to which the model gave the same judgment
SameJudgmentConverges ==
    \A i, j \in DOMAIN run :
        ( /\ BothDone(i, j)
          /\ run[i].bucket = run[j].bucket
          /\ run[i].key = run[j].key
          /\ run[i].raw = run[j].raw )
        => (StoredAsBy(i) /\ StoredAsBy(j))

(***************************************************************************)
(* Properties of the helpers, checked under SpecHelpers                    *)
(***************************************************************************)
Labels == {AUTO_APPROVED, NEEDS_HUMAN_REVIEW}

NormalizerCalled == call.fn = "_normalize_decisions" /\ call.returned

\* the call returned a DecisionSet
NormalizerReturned == NormalizerCalled /\ call.ret.exc = ""

\* C3: for every raw model output, also one that is no dict, that has no
\* "homes", whose "homes" is null or no sequence, or whose homes are no dicts,
\* _normalize_decisions raises nothing and returns a DecisionSet.
C3_NormalizerNeverRaises == NormalizerCalled => call.ret.exc = ""

\* C4: in every DecisionSet returned, total_homes is the number of homes, each
\* count is the number of homes with that decision, and the two counts add up
\* to the total, whatever summary the model sent.
C4_SummaryIsPartition ==
    NormalizerReturned =>
        LET homes == call.ret.homes
            summary == call.ret.summary
            auto == {k \in DOMAIN homes : homes[k].decision = AUTO_APPROVED}
            review == {k \in DOMAIN homes : homes[k].decision = NEEDS_HUMAN_REVIEW}
        IN  /\ summary.total_homes = Len(homes)
            /\ summary.auto_approved_count = Cardinality(auto)
            /\ summary.needs_human_review_count = Cardinality(review)
            /\ summary.total_homes
                 = summary.auto_approved_count + summary.needs_human_review_count

\* C4 witness: the model sent a summary of its own that is wrong, one home was
\* approved, and one home with an unknown label was sent to review
C4_Witness ==
    /\ NormalizerReturned
    /\ call.arg.summary.t = "dict"
    /\ call.arg.summary.total_homes # call.ret.summary.total_homes
    /\ call.ret.summary.auto_approved_count = 1
    /\ \E k \in DOMAIN call.ret.homes :
          /\ call.arg.homes.items[k].decision = JStr(<<"a","p","p","r","o","v","e","d">>)
          /\ call.ret.homes[k].decision = NEEDS_HUMAN_REVIEW

\* v is the string `label`, possibly in another case and padded with whitespace
VariantOf(v, label) ==
    /\ v.t = "str"
    /\ \E lead \in 0..Len(v.s) :
          /\ lead + Len(label) <= Len(v.s)
          /\ \A k \in 1..lead : v.s[k] \in Whitespace
          /\ \A k \in (lead + Len(label) + 1)..Len(v.s) : v.s[k] \in Whitespace
          /\ \A k \in 1..Len(label) :
                \/ v.s[lead + k] = label[k]
                \/ \E u \in DOMAIN UpperLetters :
                      UpperLetters[u] = v.s[lead + k] /\ LowerLetters[u] = label[k]

\* C5 as stated: every normalized decision is one of the two labels, and a raw
\* decision that is missing or is not exactly one of the two labels (also a
\* differently cased or padded variant of one) becomes needs_human_review.
C5_InexactLabelToReview ==
    NormalizerReturned =>
        \A k \in DOMAIN call.ret.homes :
            /\ call.ret.homes[k].decision \in Labels
            /\ call.arg.homes.items[k].decision \notin {JStr(label) : label \in Labels}
                 => call.ret.homes[k].decision = NEEDS_HUMAN_REVIEW

\* C5 amended: every normalized decision is one of the two labels; a raw
\* decision that is one of the labels up to letter case and surrounding
\* whitespace becomes that label, and every other raw decision, also a missing
\* one, becomes needs_human_review.
C5_DecisionUpToCaseAndPadding ==
    NormalizerReturned =>
        \A k \in DOMAIN call.ret.homes :
            LET value == call.arg.homes.items[k].decision
                decision == call.ret.homes[k].decision
            IN  /\ decision \in Labels
                /\ \A label \in Labels : VariantOf(value, label) => decision = label
                /\ (\A label \in Labels : ~VariantOf(value, label))
                     => decision = NEEDS_HUMAN_REVIEW

\* C5 witness: one call normalized a padded, capitalized "Auto_Approved" to
\* auto_approved and the unknown label "approved" to needs_human_review
C5_Witness ==
    /\ NormalizerReturned
    /\ \E j, k \in DOMAIN call.ret.homes :
          /\ call.arg.homes.items[j].decision
               = JStr(<<" ","A","u","t","o","_","A","p","p","r","o","v","e","d"," ">>)
          /\ call.ret.homes[j].decision = AUTO_APPROVED
          /\ call.arg.homes.items[k].decision = JStr(<<"a","p","p","r","o","v","e","d">>)
          /\ call.ret.homes[k].decision = NEEDS_HUMAN_REVIEW

\* C6: the house ids of one DecisionSet are pairwise distinct, also when the
\* model repeats an id or sends an id equal to the fallback id of another home.
C6_HouseIdsDistinct ==
    NormalizerReturned =>
        \A j, k \in DOMAIN call.ret.homes :
            j # k => call.ret.homes[j].house_id # call.ret.homes[k].house_id

\* C7: every normalized has_5ft_inclusion_zone is true, false or unknown (None),
\* and a raw value that is absent or no boolean becomes unknown.
C7_InclusionIsTriState ==
    NormalizerReturned =>
        \A k \in DOMAIN call.ret.homes :
            /\ call.ret.homes[k].has_5ft_inclusion_zone \in {JTrue, JFalse, JNull}
            /\ call.arg.homes.items[k].has_5ft_inclusion_zone.t # "bool"
                 => call.ret.homes[k].has_5ft_inclusion_zone = JNull

\* the entries of the "homes" that the Normalizer was given
RawEntries ==
    IF call.arg.t = "dict" /\ call.arg.homes.t # "missing"
    THEN call.arg.homes.items
    ELSE <<>>

\* prefix-00k, for k below 10
NumberedId(prefix, k) == prefix \o <<"0", "0", Digits[k + 1]>>

\* the DecisionSet returned has one home for each raw entry, in the order of
\* the entries: the k-th home has the label of the k-th entry when that is
\* one of the two labels, the id of the k-th entry when it has one, as a
\* string, and else the id made of `prefix` and k
OneHomePerEntry(prefix) ==
    NormalizerReturned =>
        /\ Len(call.ret.homes) = Len(RawEntries)
        /\ \A k \in DOMAIN RawEntries :
              LET entry == RawEntries[k]
                  home == call.ret.homes[k]
              IN  /\ entry.decision \in {JStr(AUTO_APPROVED), JStr(NEEDS_HUMAN_REVIEW)}
                     => home.decision = entry.decision.s
                  /\ entry.house_id.t = "str" => home.house_id = entry.house_id.s
                  /\ entry.house_id.t = "null" => home.house_id = <<"N","o","n","e">>
                  /\ entry.house_id.t = "missing"
                     => home.house_id = NumberedId(prefix, k)

BboxCalled == call.fn = "_normalize_bbox" /\ call.returned

InUnitInterval(f) == f.k = "fin" /\ 0 <= f.n /\ f.n <= One

\* what the bbox contract says of a call that returned `ret` for `raw_bbox`.
\* A coordinate is no number when float() rejects it: it is absent, None, a
\* list, a dict or a string that is no number.
BboxContract(raw_bbox, ret) ==
    LET parsed == [key \in Range(required) |-> ToFloat(raw_bbox.c[key])]
        clamped == [key \in Range(required) |->
                        PyMax(Fin(0), PyMin(Fin(One), parsed[key].f))]
    IN  /\ ret.exc = ""
        /\ ret.bbox.present =>
              \A key \in Range(required) : InUnitInterval(ret.bbox[key])
        /\ raw_bbox.t # "dict" => ~ret.bbox.present
        /\ (\E key \in Range(required) : parsed[key].exc \in {"TypeError", "ValueError"})
              => ~ret.bbox.present
        /\ ( /\ raw_bbox.t = "dict"
             /\ \A key \in Range(required) : parsed[key].exc = ""
             /\ \/ FloatLe(clamped.x_max, clamped.x_min)
                \/ FloatLe(clamped.y_max, clamped.y_min) )
             => ~ret.bbox.present

\* C8: for every raw bbox, _normalize_bbox returns None or a box with its four
\* coordinates in [0,1]; it returns None when the input is no dict, when a
\* coordinate is missing or no number, and when the clamped box has
\* x_max <= x_min or y_max <= y_min.
C8_BboxNoneOrInUnitSquare == BboxCalled => BboxContract(call.arg, call.ret)

\* the same contract holds of every call in which float() does not overflow
BboxContractWithoutOverflow ==
    (BboxCalled /\ call.ret.exc # "OverflowError") => BboxContract(call.arg, call.ret)

\* C26: every bbox that _normalize_bbox returns for a DecisionSet has, in the
\* values it stores, x_min < x_max and y_min < y_max, also when the clamped
\* coordinates of the raw box differ by less than the step of the rounding
\* to 6 decimals.
C26_StoredBboxNotDegenerate ==
    (BboxCalled /\ call.ret.exc = "" /\ call.ret.bbox.present)
    => /\ call.ret.bbox.x_min.n < call.ret.bbox.x_max.n
       /\ call.ret.bbox.y_min.n < call.ret.bbox.y_max.n

\* the same, of the raw boxes whose clamped coordinates are multiples of the
\* rounding step
BboxNotDegenerateOnGrid ==
    ( /\ BboxCalled /\ call.ret.exc = "" /\ call.ret.bbox.present
      /\ \A key \in Range(required) :
            call.arg.c[key].t = "float" => call.arg.c[key].n % SubSteps = 0 )
    => /\ call.ret.bbox.x_min.n < call.ret.bbox.x_max.n
       /\ call.ret.bbox.y_min.n < call.ret.bbox.y_max.n

SanitizerCalled == call.fn = "_sanitize_key_component" /\ call.returned

\* C28: for every id, _sanitize_key_component returns a string that is not
\* empty, has at most 120 characters and holds only letters, digits, ".",
\* "_" and "-"; for an id whose sanitized form is empty it returns "home".
C28_SanitizedIsSafeAndBounded ==
    SanitizerCalled =>
        /\ call.ret # <<>>
        /\ Len(call.ret) <= 120
        /\ \A k \in DOMAIN call.ret :
              \/ \E j \in 1..26 : call.ret[k] \in {UpperLetters[j], LowerLetters[j]}
              \/ \E j \in 1..10 : call.ret[k] = Digits[j]
              \/ call.ret[k] \in {".", "_", "-"}
        /\ call.arg = <<>> => call.ret = <<"h","o","m","e">>
        /\ \A k \in DOMAIN call.ret \cap DOMAIN call.arg :
              call.ret[k] = IF call.arg[k] \in {" ", "/", "#", "\n", "é"} THEN "_" ELSE call.arg[k]

\* C28 witness: an id of 122 characters with a slash in it comes back with
\* 120 characters and no slash
C28_Witness ==
    /\ SanitizerCalled
    /\ Len(call.arg) = 122
    /\ call.arg[121] = "/"
    /\ call.arg[1] = "/"
    /\ Len(call.ret) = 120
    /\ call.ret[1] = "_"

\* the empty id comes back as the placeholder
C28_WitnessEmpty == SanitizerCalled /\ call.arg = <<>> /\ call.ret = <<"h","o","m","e">>

PixelBoxCalled == call.fn = "_bbox_to_pixel_box" /\ call.returned

\* C9: for every width and height >= 1 and every bbox with coordinates in
\* [0,1], the pixel box has 0 <= left < right <= width and
\* 0 <= top < bottom <= height.
C9_PixelBoxInsideImage ==
    PixelBoxCalled =>
        /\ 0 <= call.ret.left
        /\ call.ret.left < call.ret.right
        /\ call.ret.right <= call.arg.width
        /\ 0 <= call.ret.top
        /\ call.ret.top < call.ret.bottom
        /\ call.ret.bottom <= call.arg.height

\* C9 witness: a box on the right edge that is less than one pixel wide (both
\* x products truncate to the width) and less than one pixel high
C9_Witness ==
    /\ PixelBoxCalled
    /\ call.arg.width > 1
    /\ IntOfProduct(call.arg.bbox.x_min, call.arg.width, call.arg.fp.x_min) = call.arg.width
    /\ IntOfProduct(call.arg.bbox.x_max, call.arg.width, call.arg.fp.x_max) = call.arg.width
    /\ IntOfProduct(call.arg.bbox.y_min, call.arg.height, call.arg.fp.y_min)
         = IntOfProduct(call.arg.bbox.y_max, call.arg.height, call.arg.fp.y_max)
    /\ call.ret.left = call.arg.width - 1
    /\ call.ret.right = call.arg.width

====
